---- MODULE Spec2Model ----
(***************************************************************************)
(* A model of the incremental k-mer clustering engine of ADCS2018          *)
(* (KmerCluster<DistanceFunction,KmerType>) as run by AAClust:             *)
(* the k-mer index, the packed encodings and the cached BLOSUM-difference  *)
(* distance, and the two scheduling variants of                            *)
(* DoExhaustiveIncrementalClustering with their OpenMP scan threads.       *)
(* The build modelled is the OpenMP build (USE_OMP set, -fopenmp).         *)
(***************************************************************************)
EXTENDS Naturals, Integers, Sequences, FiniteSets, TLC

\* ------------------------------------------------------------------ bounds
\* Length of the one sequence of a generated database.
MaxSeqLen == 6
\* Largest value of --numThreads.
MaxThreads == 2

\* ------------------------------------------------------- program constants
\* KmerDistanceCache2::CharsPerWord().
CharsPerWord == 2
\* numeric_limits<Distance>::max() + 1, Distance being uint16_t.
DistanceMod == 65536
\* KmerWord is a 16 bit unsigned word.
KmerWordMod == 65536

\* ------------------------------------------------------------ small inputs
\* The custom similarity matrix file: heading row and data rows.
Symbols == <<"a", "b">>

Chars == {Symbols[i] : i \in 1..Len(Symbols)}

\* Alphabet::Size().
AlphabetSize == Len(Symbols)

\* SimilarityMatrix::dict after Parse.
dict == [s \in Chars \cup {"x"} |-> [t \in Chars \cup {"x"} |->
            IF s = "x" \/ t = "x" THEN 0
            ELSE IF s # t THEN 0
            ELSE IF s = "a" THEN 2 ELSE 1]]

\* SimilarityMatrix::maxValue, the largest value given to SetSimilarity.
maxValue == CHOOSE v \in {dict[s][t] : s \in Chars, t \in Chars} :
                \A s \in Chars, t \in Chars : dict[s][t] <= v

\* std::min.
Min(a, b) == IF a <= b THEN a ELSE b

\* std::swap of two slots of a vector (0-origin indices).
Swap(v, i, j) == [v EXCEPT ![i + 1] = v[j + 1], ![j + 1] = v[i + 1]]

\* ---------------------------------------------------------------- alphabet
\* tolower on the characters the inputs are made of.
ToLower(ch) == IF ch = "A" THEN "a" ELSE IF ch = "B" THEN "b" ELSE ch

\* Alphabet::inverse: 0 for a character which is no symbol.
\* Both cases of a symbol stand at its place.
Inverse(ch) ==
    IF \E i \in 1..Len(Symbols) : Symbols[i] = ToLower(ch)
    THEN (CHOOSE i \in 1..Len(Symbols) : Symbols[i] = ToLower(ch)) - 1
    ELSE 0

\* Alphabet::WordsPerKmer.
WordsPerKmer(kmerLength, charsPerWord) ==
    (kmerLength + charsPerWord - 1) \div charsPerWord

RECURSIVE EncodeLoop(_, _, _, _, _, _)
EncodeLoop(s, kmerLength, charsPerWord, i, wordIndex, code) ==
    IF i >= kmerLength THEN code
    ELSE LET j == Inverse(s[i + 1])
             code1 == [code EXCEPT ![wordIndex + 1] =
                          (code[wordIndex + 1] * AlphabetSize + j) % KmerWordMod]
             adv == i > 0 /\ i % charsPerWord = charsPerWord - 1
             code2 == IF adv /\ wordIndex + 1 < WordsPerKmer(kmerLength, charsPerWord)
                      THEN Append(code1, 0) ELSE code1
         IN EncodeLoop(s, kmerLength, charsPerWord, i + 1,
                       IF adv THEN wordIndex + 1 ELSE wordIndex, code2)

\* Alphabet::Encode(const char *, kmerLength, charsPerWord, code): the words
\* written to code.
Encode(s, kmerLength, charsPerWord) ==
    EncodeLoop(s, kmerLength, charsPerWord, 0, 0, <<0>>)

\* The characters s[from], s[from+1], ... of a C string (0-origin).
Tail0(s, from) == [i \in 1..(Len(s) - from) |-> s[from + i]]

RECURSIVE EncodeRow(_, _, _, _, _)
\* One row of the staggered encoding: the codewords of the tuples starting at
\* offset, offset + charsPerWord, ...
EncodeRow(s, len, charsPerWord, i, row) ==
    IF i + charsPerWord > len THEN row
    ELSE EncodeRow(s, len, charsPerWord, i + charsPerWord,
                   Append(row, Encode(Tail0(s, i), charsPerWord, charsPerWord)[1]))

\* Alphabet::Encode(s, len, kmerLength, charsPerWord, code) for
\* kmerLength > charsPerWord and kmerLength divisible by charsPerWord.
EncodeSequence(s, kmerLength, charsPerWord) ==
    [r \in 1..charsPerWord |-> EncodeRow(s, Len(s), charsPerWord, r - 1, <<>>)]

RECURSIVE Pad(_, _, _)
\* EncodedFastaSequence::Pad.
Pad(sequence, minLength, padding) ==
    IF Len(sequence) >= minLength THEN sequence
    ELSE Pad(Append(sequence, padding), minLength, padding)

\* The null EncodedKmer pointer.
NULL == <<-1>>

\* EncodedFastaSequence::GetEncodedKmer2: the address of a word of the
\* staggered encoding, modelled by the words from that address to the end of
\* its row.
GetEncodedKmer2(encoding2, pos) ==
    LET row == encoding2[(pos % 2) + 1]
    IN  [i \in 1..(Len(row) - (pos \div 2)) |-> row[(pos \div 2) + i]]

\* EncodedFastaSequence: the padded sequence and its packed encoding.
EncodedFastaSequence(sequence, kmerLength) ==
    LET padded == Pad(sequence, kmerLength, "x")
    IN  [sequence |-> padded,
         encoding2 |-> EncodeSequence(padded, kmerLength, CharsPerWord)]

\* A count which leaves out the last window.
KmerCountShort(seq, K) == IF Len(seq.sequence) > K THEN Len(seq.sequence) - K ELSE 0

\* EncodedFastaSequence::KmerCount.
KmerCount(seq, K) == IF Len(seq.sequence) >= K THEN Len(seq.sequence) + 1 - K ELSE 0

\* ---------------------------------------------------------- distance cache
RECURSIVE SimilarityLoop(_, _, _, _)
SimilarityLoop(x, y, length, i) ==
    IF i >= length THEN 0
    ELSE dict[x[i + 1]][y[i + 1]] + SimilarityLoop(x, y, length, i + 1)

\* SimilarityMatrix::Similarity(x, y, length), a Distance.
Similarity(x, y, length) == SimilarityLoop(x, y, length, 0) % DistanceMod

\* BlosumDifferenceFunction::operator().
BlosumDifference(x, y, length) ==
    (length * maxValue - Similarity(x, y, length)) % DistanceMod

RECURSIVE DecodeLoop(_, _, _)
\* Alphabet::Decode of one word holding k symbols: the most significant symbol
\* comes first.
DecodeLoop(n, k, acc) ==
    IF k = 0 THEN acc
    ELSE DecodeLoop((n - (n % AlphabetSize)) \div AlphabetSize, k - 1,
                    <<Symbols[(n % AlphabetSize) + 1]>> \o acc)

Decode(code, k) == DecodeLoop(code, k, <<>>)

RECURSIVE Flatten(_)
\* The strings of t copied to charBuffer one after the other.
Flatten(t) == IF t = <<>> THEN <<>> ELSE Head(t) \o Flatten(Tail(t))

RECURSIVE DecodeKmerLoop(_, _, _, _, _, _, _)
\* The loop of Alphabet::Decode(code, k, charsPerWord, charBuffer): n is what
\* is left of the word being decoded, t the strings decoded so far, the last
\* of them being s.
DecodeKmerLoop(code, k, charsPerWord, i, wordIndex, n, t) ==
    IF i >= k THEN Flatten(t)
    ELSE LET j == n % AlphabetSize
             n1 == (n - j) \div AlphabetSize
             t1 == [t EXCEPT ![Len(t)] = <<Symbols[j + 1]>> \o @]
             adv == i > 0 /\ i % charsPerWord = charsPerWord - 1
             more == adv /\ wordIndex + 1 < WordsPerKmer(k, charsPerWord)
         IN  DecodeKmerLoop(code, k, charsPerWord, i + 1,
                            IF adv THEN wordIndex + 1 ELSE wordIndex,
                            IF more THEN code[wordIndex + 2] ELSE n1,
                            IF more THEN Append(t1, <<>>) ELSE t1)

\* Alphabet::Decode(code, k, charsPerWord, charBuffer): the k characters
\* written to charBuffer.
DecodeKmer(code, k, charsPerWord) ==
    DecodeKmerLoop(code, k, charsPerWord, 0, 0, code[1], <<<<>>>>)

\* The (CacheType) conversion of a Distance to int8_t.
CacheType(t) == (((t % 256) + 128) % 256) - 128

RECURSIVE Power(_, _)
\* uint vocabSize = len; for (i = 1; i < charsPerWord; i++) vocabSize *= len.
Power(len, charsPerWord) ==
    IF charsPerWord <= 1 THEN len ELSE len * Power(len, charsPerWord - 1)

\* alphabetSize^charsPerWord, the vocabulary size of a table.
VocabSize(charsPerWord) == Power(AlphabetSize, charsPerWord)

\* KmerDistanceCache::PrecomputeDistances: the table of charsPerWord-tuples.
PrecomputeDistances(charsPerWord) ==
    [i \in 0..(VocabSize(charsPerWord) - 1) |->
        [j \in 0..(VocabSize(charsPerWord) - 1) |->
            CacheType(BlosumDifference(Decode(i, charsPerWord),
                                       Decode(j, charsPerWord), charsPerWord))]]

kmerDistances1 == PrecomputeDistances(1)

kmerDistances2 == PrecomputeDistances(2)

RECURSIVE DistanceLoop(_, _, _, _)
DistanceLoop(sKmerCode, tKmerCode, numTwos, i) ==
    IF i >= numTwos THEN 0
    ELSE kmerDistances2[sKmerCode[i + 1]][tKmerCode[i + 1]]
         + DistanceLoop(sKmerCode, tKmerCode, numTwos, i + 1)

\* KmerDistanceCache2::operator()(sKmerCode, tKmerCode, kmerLength), both
\* pointers valid.
KmerDistanceCache2(sKmerCode, tKmerCode, kmerLength) ==
    LET numTwos == kmerLength \div 2
        rem == kmerLength % 2
    IN  (DistanceLoop(sKmerCode, tKmerCode, numTwos, 0)
         + (IF rem > 0
            THEN kmerDistances1[sKmerCode[numTwos + 1]][tKmerCode[numTwos + 1]]
            ELSE 0)) % DistanceMod

\* -------------------------------------------------------------- k-mer index
\* numeric_limits<Distance>::max().
MaxDistance == DistanceMod - 1

\* A Substring compared without regard to case.
SubstringFolded(str, start, length) == [i \in 1..length |-> ToLower(str[start + i])]

\* Substring(str, start, length): the characters it covers.
Substring(str, start, length) == [i \in 1..length |-> str[start + i]]

\* Kmer::Kmer(const Substring &): no instance, a null encoding.
Kmer(charData) ==
    [substring |-> charData, instances |-> <<>>, encoding |-> NULL,
     distanceFromPrototype |-> MaxDistance]

\* Kmer::Add keeping the first instance only.
KmerAddOnce(kmer, seqId, seq, kmerPosition) ==
    IF Len(kmer.instances) > 0 THEN kmer
    ELSE [kmer EXCEPT
            !.instances = <<[sequence |-> seqId, kmerPosition |-> kmerPosition]>>,
            !.encoding = GetEncodedKmer2(seq.encoding2, kmerPosition)]

\* Kmer::Add(seq, kmerPosition): seqId names the sequence object seq.
KmerAdd(kmer, seqId, seq, kmerPosition) ==
    [kmer EXCEPT
        !.distanceFromPrototype = MaxDistance,
        !.instances = Append(@, [sequence |-> seqId, kmerPosition |-> kmerPosition]),
        !.encoding = IF Len(kmer.instances) = 0
                     THEN GetEncodedKmer2(seq.encoding2, kmerPosition)
                     ELSE @]

RECURSIVE KmerIndexLoop(_, _, _, _, _)
\* The loops of KmerIndex::KmerIndex(dataset, length, kmerLength); index lists
\* the Kmer records in the order of their first insertion.
KmerIndexLoop(dataset, kmerLength, i, kmerPos, index) ==
    IF i > Len(dataset) THEN index
    ELSE IF Len(dataset[i].sequence) < kmerLength
            \/ kmerPos >= KmerCount(dataset[i], kmerLength)
    THEN KmerIndexLoop(dataset, kmerLength, i + 1, 0, index)
    ELSE LET s == Substring(dataset[i].sequence, kmerPos, kmerLength)
             item == {n \in 1..Len(index) : index[n].substring = s}
         IN  IF item = {}
             THEN KmerIndexLoop(dataset, kmerLength, i, kmerPos + 1,
                      Append(index, KmerAdd(Kmer(s), i, dataset[i], kmerPos)))
             ELSE KmerIndexLoop(dataset, kmerLength, i, kmerPos + 1,
                      [index EXCEPT ![CHOOSE n \in item : TRUE] =
                          KmerAdd(@, i, dataset[i], kmerPos)])

\* KmerIndex::KmerIndex over the sequences read from the FASTA file.
KmerIndex(db, kmerLength) ==
    KmerIndexLoop([i \in 1..Len(db) |-> EncodedFastaSequence(db[i], kmerLength)],
                  kmerLength, 1, 0, <<>>)

\* KmerIndex::GetKmers: the pointers to the Kmer records (their positions in
\* the index).
GetKmers(index) == [n \in 1..Len(index) |-> n]

\* ---------------------------------------------------------------- prototypes
\* KmerClusterPrototype::SingletonKmer() of a prototype built by the
\* constructor taking (id, classLabel, defLine, sequence, ...), which ends
\* with thisKmer.Add(this, 0).
PrototypeFromFasta(kmerWord, wordLength) ==
    KmerAdd(Kmer(kmerWord), "proto", EncodedFastaSequence(kmerWord, wordLength), 0)

\* KmerClusterPrototype::SingletonKmer() of a prototype built by the
\* constructor taking (kmerWord, alphabet, wordLength, charsPerWord): thisKmer
\* is built from the Substring alone.
PrototypeFromWord(kmerWord, wordLength) == Kmer(kmerWord)

\* The createPrototype callback: "AAClust" is the lambda of AAClust::Run,
\* "DefaultFactory" a callback building the prototype as
\* KmerClusterPrototype::DefaultFactory does.
CreatePrototype(callback, kmer, wordLength) ==
    IF callback = "AAClust"
    THEN PrototypeFromWord(kmer.substring, wordLength)
    ELSE PrototypeFromFasta(kmer.substring, wordLength)

\* KmerCluster::KmerCluster(prototype, expectedSize, distanceFunction).
KmerCluster(prototype) == [prototype |-> prototype, kmers |-> <<>>]

\* KmerCluster::InitialiseClusters over the prototypes read from --protoIn.
InitialiseClusters(protos, wordLength) ==
    [c \in 1..Len(protos) |-> KmerCluster(PrototypeFromFasta(protos[c], wordLength))]

\* ------------------------------------------------------------ random source
\* std::default_random_engine is a multiplicative congruential generator; the
\* model keeps its shape with a small modulus and multiplier.
RandModulus == 7

RandMultiplier == 3

\* UniformRealRandom::UniformRealRandom(seed): the state of generator.
UniformRealRandom(seed) == 1 + (seed % (RandModulus - 1))

\* The state of generator after one call of UniformRealRandom::operator().
RandNext(x) == (RandMultiplier * x) % RandModulus

\* (size_t)(rand() * m) for the call which leaves generator in state x: the
\* value returned is (x - 1) / (RandModulus - 1), in [0, 1).
RandScaled(x, m) == ((x - 1) * m) \div (RandModulus - 1)

\* ------------------------------------------------------------------- inputs
\* --wordLength.
WordLengths == {4}

\* --threshold.
Thresholds == {0, 2}

\* --increment.
Increments == {0, 1, 2, 3}

\* --seed.
Seeds == {1, 4}

\* --clusterMode: 1 is the global variant, 2 the banded one.
Variants == {"global", "banded"}

\* The createPrototype callbacks.
Callbacks == {"AAClust", "DefaultFactory"}

\* The word made of length copies of ch.
Repeat(ch, length) == [i \in 1..length |-> ch]

\* --protoIn: no file, or a file with one prototype.
ProtoFiles(wordLength) == {<<>>, <<Repeat("a", wordLength)>>}

\* A sequence with four distinct k-mers, so that two threads have bands of
\* two k-mers each.
LongSequence == <<"a", "a", "a", "a", "b", "b", "b">>

\* --fastaFile: no sequence, one sequence of MaxSeqLen symbols, the long
\* sequence, or three copies of a sequence of 10 equal symbols.
Databases ==
    {<<>>} \cup {<<s>> : s \in [1..MaxSeqLen -> Chars]} \cup {<<LongSequence>>}
    \cup {<<Repeat("a", 10), Repeat("a", 10), Repeat("a", 10)>>}

\* -------------------------------------------------------------------- state
VARIABLES
    args,               \* the command line of AAClust
    kmerIndex,          \* the Kmer records of the KmerIndex
    allKmers,           \* vector<KmerType *> allKmers
    clusters,           \* vector<KmerCluster *> clusters
    firstUnallocIndex,  \* size_t (global) or vector<size_t> (banded)
    firstClusterIndex,
    increment,
    previous,
    rand,               \* the state of rand.generator
    pc,                 \* where DoExhaustiveIncrementalClustering stands
    scan,               \* the iterations (global) or threads (banded) of the
                        \* parallel region being executed
    firstRun,           \* what an earlier run over the same input ended with
    call                \* a call of one operation of the library on its own

vars == <<args, kmerIndex, allKmers, clusters, firstUnallocIndex,
          firstClusterIndex, increment, previous, rand, pc, scan, firstRun,
          call>>

\* No earlier run.
NoRun == [variant |-> "none"]

\* No operation is being called on its own.
NoCall == [op |-> "none"]

\* size_t N = kmerIndex.size().
N == Len(kmerIndex)

\* firstUnallocIndex as it is declared: a size_t in the global variant, a
\* vector with one slot for each thread in the banded variant.
FirstUnallocIndex(a) ==
    IF a.variant = "global" THEN 0 ELSE [t \in 0..(a.numThreads - 1) |-> 0]

Init ==
    /\ args \in {a \in [db : Databases, wordLength : WordLengths,
                        threshold : Thresholds, clusterIncrement : Increments,
                        numThreads : 1..MaxThreads, variant : Variants,
                        seed : Seeds, createPrototype : Callbacks,
                        protos : UNION {ProtoFiles(w) : w \in WordLengths}] :
                    a.protos \in ProtoFiles(a.wordLength)}
    /\ kmerIndex = KmerIndex(args.db, args.wordLength)
    /\ allKmers = <<>>
    /\ clusters = InitialiseClusters(args.protos, args.wordLength)
    /\ firstUnallocIndex = FirstUnallocIndex(args)
    /\ firstClusterIndex = 0
    /\ increment = 0
    /\ previous = 0
    /\ rand = UniformRealRandom(args.seed)
    /\ pc = "start"
    /\ scan = <<>>
    /\ firstRun = NoRun
    /\ call = NoCall

\* ------------------------------------------------------- the scan of a k-mer
\* distanceFunction(encoding, encoding, wordLength) of the setup loops.
SelfMatchDistance(kmer, wordLength) ==
    KmerDistanceCache2(kmer.encoding, kmer.encoding, wordLength)

RECURSIVE FirstFit(_, _, _, _, _)
\* The loop over clusters[j], j >= firstClusterIndex, of a scan: the first
\* cluster within the threshold; reading a null prototype encoding ends the
\* process.
FirstFit(kmerEncoding, cl, j, K, threshold) ==
    IF j >= Len(cl) THEN [kind |-> "miss", j |-> 0, dist |-> MaxDistance]
    ELSE IF cl[j + 1].prototype.encoding = NULL
    THEN [kind |-> "crash", j |-> 0, dist |-> MaxDistance]
    ELSE LET dist == KmerDistanceCache2(kmerEncoding, cl[j + 1].prototype.encoding, K)
         IN  IF dist <= threshold
             THEN [kind |-> "hit", j |-> j, dist |-> dist]
             ELSE FirstFit(kmerEncoding, cl, j + 1, K, threshold)

\* kmer->DistanceFromPrototype(attractorDistance); attractor->AddParallel(*kmer):
\* the member is a copy of the Kmer, kept as the record's position and the
\* distance it carries.
AddParallel(cl, j, kmer, attractorDistance) ==
    [cl EXCEPT ![j + 1].kmers =
        Append(@, [kmer |-> kmer, distanceFromPrototype |-> attractorDistance])]

\* The entry test with the comparison of the count changed.
NothingToScanMutant(cl, requestedClusterCount) ==
    Len(cl) = 0 /\ requestedClusterCount < 0

\* The test at the entry of DoIncrementalClusteringParallel (lines 276, 427).
NothingToScan(cl, requestedClusterCount) ==
    Len(cl) = 0 /\ requestedClusterCount = 0

\* The test after a pass with the comparison changed.
NoProgressMutant(allocated, before) == allocated < before

\* The test which ends the while loop after a pass (lines 396, 616).
NoProgress(allocated, before) == allocated = before

RECURSIVE Seed(_, _, _, _, _, _)
\* The seed loop: one new cluster for each of kmers[i], ..., kmers[end - 1].
Seed(cl, index, kmers, i, end, a) ==
    IF i >= end THEN cl
    ELSE Seed(Append(cl, KmerCluster(CreatePrototype(a.createPrototype,
                                                      index[kmers[i + 1]], a.wordLength))),
              index, kmers, i + 1, end, a)

\* ------------------------------------------------------------ global variant
RECURSIVE FilterGlobal(_, _, _, _, _)
\* The first loop of the global DoExhaustiveIncrementalClustering; its body
\* ends with i++, and so does its header.
FilterGlobal(index, kmers, first, i, a) ==
    IF i >= Len(kmers) THEN [kmers |-> kmers, first |-> first]
    ELSE IF SelfMatchDistance(index[kmers[i + 1]], a.wordLength) > a.threshold
            /\ i > first
    THEN FilterGlobal(index, Swap(kmers, i, first), first + 1, i + 2, a)
    ELSE FilterGlobal(index, kmers, first, i + 2, a)

RECURSIVE Shuffle(_, _, _, _, _)
\* The shuffle loop over [i, end) of a range which starts at first: one call
\* of rand for each slot.
Shuffle(kmers, first, end, i, x) ==
    IF i >= end THEN [kmers |-> kmers, rand |-> x]
    ELSE Shuffle(Swap(kmers, i, first + RandScaled(RandNext(x), end - first)),
                 first, end, i + 1, RandNext(x))

\* The states of one iteration of the parallel for.
Pending == [pc |-> "pending", kmer |-> 0, j |-> 0, dist |-> 0]

Finished == [pc |-> "done", kmer |-> 0, j |-> 0, dist |-> 0]

\* #pragma omp parallel for, without a schedule clause: the iterations
\* first, ..., n - 1 are divided into one contiguous chunk for each thread
\* (schedule(static), what the GNU and LLVM runtimes do by default). The
\* thread which executes iteration i:
Owner(i, first, n, numThreads) ==
    LET q == (n - first) \div numThreads
        r == (n - first) % numThreads
        k == i - first
    IN  IF k < r * (q + 1) THEN k \div (q + 1)
        ELSE r + ((k - r * (q + 1)) \div q)

\* A thread executes the iterations of its chunk one after the other.
MayStart(i) ==
    \A h \in DOMAIN scan :
        (h < i /\ Owner(h, previous, N, args.numThreads)
                    = Owner(i, previous, N, args.numThreads))
            => scan[h].pc = "done"

\* Lines 344-375: the copy of the k-mer list, the filter, the shuffle.
GlobalSetup ==
    /\ pc = "start"
    /\ args.variant = "global"
    /\ LET f == FilterGlobal(kmerIndex, GetKmers(kmerIndex), 0, 0, args)
           s == Shuffle(f.kmers, f.first, N, f.first, rand)
       IN  /\ allKmers' = s.kmers
           /\ rand' = s.rand
           /\ firstUnallocIndex' = f.first
    /\ firstClusterIndex' = 0
    /\ increment' = IF Len(clusters) > 0 THEN 0 ELSE args.clusterIncrement
    /\ pc' = "loop"
    /\ UNCHANGED <<call, firstRun, args, kmerIndex, clusters, previous, scan>>

\* The number of clusters to seed with one k-mer of the range left out.
WantedGlobalShort == Min(increment, Len(allKmers) - firstUnallocIndex - 1)

\* The number of clusters the seed phase of the global variant adds.
WantedGlobal == Min(increment, Len(allKmers) - firstUnallocIndex)

\* The while test, and the call of DoIncrementalClusteringParallel up to the
\* start of its parallel for: the entry check and the seed phase.
GlobalPass ==
    /\ pc = "loop"
    /\ args.variant = "global"
    /\ IF ~(firstUnallocIndex < N)
       THEN /\ pc' = "done"
            /\ UNCHANGED <<clusters, previous, scan>>
       ELSE IF NothingToScan(clusters, increment)
       THEN /\ pc' = "threw"
            /\ previous' = firstUnallocIndex
            /\ UNCHANGED <<clusters, scan>>
       ELSE /\ previous' = firstUnallocIndex
            /\ clusters' = IF increment > 0
                           THEN Seed(clusters, kmerIndex, allKmers, firstUnallocIndex,
                                     firstUnallocIndex + WantedGlobal, args)
                           ELSE clusters
            /\ scan' = [i \in firstUnallocIndex..(N - 1) |-> Pending]
            /\ pc' = "scan"
    /\ UNCHANGED <<call, firstRun, args, kmerIndex, allKmers, firstUnallocIndex, firstClusterIndex,
                   increment, rand>>

\* Line 296: KmerType *kmer = kmers[i], by a thread which takes iteration i.
GlobalReadKmer(i) ==
    /\ pc = "scan"
    /\ args.variant = "global"
    /\ scan[i].pc = "pending"
    /\ MayStart(i)
    /\ scan' = [scan EXCEPT ![i] = [pc |-> "read", kmer |-> allKmers[i + 1],
                                    j |-> 0, dist |-> 0]]
    /\ UNCHANGED <<call, firstRun, args, kmerIndex, allKmers, clusters, firstUnallocIndex,
                   firstClusterIndex, increment, previous, rand, pc>>

\* Lines 297-316: kmers[i]->PackedEncoding(), read again from kmers[i], and
\* the loop over the clusters.
GlobalFindAttractor(i) ==
    /\ pc = "scan"
    /\ args.variant = "global"
    /\ scan[i].pc = "read"
    /\ LET fit == FirstFit(kmerIndex[allKmers[i + 1]].encoding, clusters,
                           firstClusterIndex, args.wordLength, args.threshold)
       IN  IF fit.kind = "crash"
           THEN /\ pc' = "crashed"
                /\ UNCHANGED scan
           ELSE /\ pc' = pc
                /\ scan' = [scan EXCEPT ![i] =
                               IF fit.kind = "miss" THEN Finished
                               ELSE [pc |-> "hit", kmer |-> scan[i].kmer,
                                     j |-> fit.j, dist |-> fit.dist]]
    /\ UNCHANGED <<call, firstRun, args, kmerIndex, allKmers, clusters, firstUnallocIndex,
                   firstClusterIndex, increment, previous, rand>>

\* Lines 319-320: the distance is stored in the Kmer and the Kmer is copied
\* into the attractor, under the lock of the cluster.
GlobalAdd(i) ==
    /\ pc = "scan"
    /\ args.variant = "global"
    /\ scan[i].pc = "hit"
    /\ kmerIndex' = [kmerIndex EXCEPT ![scan[i].kmer].distanceFromPrototype = scan[i].dist]
    /\ clusters' = AddParallel(clusters, scan[i].j, scan[i].kmer, scan[i].dist)
    /\ scan' = [scan EXCEPT ![i].pc = "added"]
    /\ UNCHANGED <<call, firstRun, args, allKmers, firstUnallocIndex, firstClusterIndex, increment,
                   previous, rand, pc>>

\* Lines 321-327 with the counter written from the value it had when the
\* pass began, as an update made outside the critical section can be.
GlobalCriticalStale(i) ==
    /\ pc = "scan"
    /\ args.variant = "global"
    /\ scan[i].pc = "added"
    /\ allKmers' = IF i > firstUnallocIndex
                   THEN Swap(allKmers, firstUnallocIndex, i) ELSE allKmers
    /\ firstUnallocIndex' = previous + 1
    /\ scan' = [scan EXCEPT ![i] = Finished]
    /\ UNCHANGED <<call, firstRun, args, kmerIndex, clusters, firstClusterIndex, increment,
                   previous, rand, pc>>

\* Lines 321-327: the critical section.
GlobalCritical(i) ==
    /\ pc = "scan"
    /\ args.variant = "global"
    /\ scan[i].pc = "added"
    /\ allKmers' = IF i > firstUnallocIndex
                   THEN Swap(allKmers, firstUnallocIndex, i) ELSE allKmers
    /\ firstUnallocIndex' = firstUnallocIndex + 1
    /\ scan' = [scan EXCEPT ![i] = Finished]
    /\ UNCHANGED <<call, firstRun, args, kmerIndex, clusters, firstClusterIndex, increment,
                   previous, rand, pc>>

\* The end of a pass which leaves firstClusterIndex as it was.
GlobalJoinStale ==
    /\ pc = "scan"
    /\ args.variant = "global"
    /\ \A i \in DOMAIN scan : scan[i].pc = "done"
    /\ scan' = <<>>
    /\ IF NoProgress(firstUnallocIndex, previous)
       THEN /\ pc' = "done"
            /\ UNCHANGED increment
       ELSE /\ pc' = "loop"
            /\ increment' = args.clusterIncrement
    /\ UNCHANGED <<call, firstRun, args, kmerIndex, allKmers, clusters, firstUnallocIndex,
                   firstClusterIndex, previous, rand>>

\* The end of the parallel for, and lines 396-402.
GlobalJoin ==
    /\ pc = "scan"
    /\ args.variant = "global"
    /\ \A i \in DOMAIN scan : scan[i].pc = "done"
    /\ scan' = <<>>
    /\ IF NoProgress(firstUnallocIndex, previous)
       THEN /\ pc' = "done"
            /\ UNCHANGED <<increment, firstClusterIndex>>
       ELSE /\ pc' = "loop"
            /\ increment' = args.clusterIncrement
            /\ firstClusterIndex' = Len(clusters)
    /\ UNCHANGED <<call, firstRun, args, kmerIndex, allKmers, clusters, firstUnallocIndex,
                   previous, rand>>

\* ------------------------------------------------------------ banded variant
\* The band of a thread: beginIdx and endIdx.
BeginIdx(threadId, a) == (threadId * N) \div a.numThreads

\* The end of a band which runs to the end of the list.
EndIdxWhole(threadId, a) == N

EndIdx(threadId, a) == ((threadId + 1) * N) \div a.numThreads

RECURSIVE FilterBanded(_, _, _, _, _, _)
\* The filter loop of a thread over its band, lines 564-575.
FilterBanded(index, kmers, first, i, endIdx, a) ==
    IF i >= endIdx THEN [kmers |-> kmers, first |-> first]
    ELSE IF SelfMatchDistance(index[kmers[i + 1]], a.wordLength) > a.threshold
            /\ i > first
    THEN FilterBanded(index, Swap(kmers, i, first), first + 1, i + 1, endIdx, a)
    ELSE FilterBanded(index, kmers, first, i + 1, endIdx, a)

RECURSIVE GetUnallocatedLoop(_, _, _, _)
GetUnallocatedLoop(numThreads, n, first, i) ==
    IF i >= numThreads THEN 0
    ELSE (first[i] - ((i * n) \div numThreads))
         + GetUnallocatedLoop(numThreads, n, first, i + 1)

\* KmerCluster::GetUnallocated.
GetUnallocated(numThreads, n, first) == GetUnallocatedLoop(numThreads, n, first, 0)

RECURSIVE SeedBanded(_, _, _, _, _, _)
\* The seed phase of the banded variant, lines 436-463: thread by thread.
SeedBanded(cl, index, kmers, first, threadId, a) ==
    IF threadId >= a.numThreads THEN cl
    ELSE LET available == EndIdx(threadId, a) - first[threadId]
             desired == (((threadId + 1) * increment) \div a.numThreads)
                        - ((threadId * increment) \div a.numThreads)
             wanted == Min(desired, available)
         IN  SeedBanded(Seed(cl, index, kmers, first[threadId],
                             first[threadId] + wanted, a),
                        index, kmers, first, threadId + 1, a)

\* A thread of a parallel region which has reached the end of the region.
Joined == [pc |-> "joined", i |-> 0]

\* Lines 538-546: the copy of the k-mer list and the start of the parallel
\* region of the setup.
BandedFork ==
    /\ pc = "start"
    /\ args.variant = "banded"
    /\ allKmers' = GetKmers(kmerIndex)
    /\ firstUnallocIndex' = FirstUnallocIndex(args)
    /\ scan' = [t \in 0..(args.numThreads - 1) |-> [pc |-> "filter", i |-> 0]]
    /\ pc' = "setup"
    /\ UNCHANGED <<call, firstRun, args, kmerIndex, clusters, firstClusterIndex, increment,
                   previous, rand>>

\* Lines 553-575 by thread t: the high-water mark and the filter of its band.
BandedFilter(t) ==
    /\ pc = "setup"
    /\ scan[t].pc = "filter"
    /\ LET f == FilterBanded(kmerIndex, allKmers, BeginIdx(t, args), BeginIdx(t, args),
                             EndIdx(t, args), args)
       IN  /\ allKmers' = f.kmers
           /\ firstUnallocIndex' = [firstUnallocIndex EXCEPT ![t] = f.first]
           /\ scan' = [scan EXCEPT ![t] = IF f.first < EndIdx(t, args)
                                          THEN [pc |-> "shuffle", i |-> f.first]
                                          ELSE Joined]
    /\ UNCHANGED <<call, firstRun, args, kmerIndex, clusters, firstClusterIndex, increment,
                   previous, rand, pc>>

\* Line 579 by thread t: rand() begins and reads the state of the shared
\* generator, which no lock protects.
BandedDraw(t) ==
    /\ pc = "setup"
    /\ scan[t].pc = "shuffle"
    /\ scan' = [scan EXCEPT ![t] = [pc |-> "draw", i |-> scan[t].i, seen |-> rand]]
    /\ UNCHANGED <<call, firstRun, args, kmerIndex, allKmers, clusters, firstUnallocIndex,
                   firstClusterIndex, increment, previous, rand, pc>>

\* Lines 578-581 by thread t: rand() stores the state which follows the one
\* it read and returns, and the iteration of the shuffle of the band swaps.
BandedShuffle(t) ==
    /\ pc = "setup"
    /\ scan[t].pc = "draw"
    /\ LET i == scan[t].i
           x == RandNext(scan[t].seen)
           newLoc == firstUnallocIndex[t]
                     + RandScaled(x, EndIdx(t, args) - firstUnallocIndex[t])
       IN  /\ allKmers' = Swap(allKmers, i, newLoc)
           /\ rand' = x
           /\ scan' = [scan EXCEPT ![t] = IF i + 1 < EndIdx(t, args)
                                          THEN [pc |-> "shuffle", i |-> i + 1]
                                          ELSE Joined]
    /\ UNCHANGED <<call, firstRun, args, kmerIndex, clusters, firstUnallocIndex, firstClusterIndex,
                   increment, previous, pc>>

\* The end of the parallel region of the setup, and lines 584-585.
BandedSetupJoin ==
    /\ pc = "setup"
    /\ \A t \in DOMAIN scan : scan[t] = Joined
    /\ scan' = <<>>
    /\ firstClusterIndex' = 0
    /\ increment' = IF Len(clusters) > 0 THEN 0 ELSE args.clusterIncrement
    /\ pc' = "loop"
    /\ UNCHANGED <<call, firstRun, args, kmerIndex, allKmers, clusters, firstUnallocIndex,
                   previous, rand>>

\* size_t numAllocated: it is GetUnallocated(...) whenever the while test
\* reads it (lines 587 and 614).
NumAllocated == GetUnallocated(args.numThreads, N, firstUnallocIndex)

\* The while test, and the call of DoIncrementalClusteringParallel up to the
\* start of its parallel region: the entry check and the seed phase.
BandedPass ==
    /\ pc = "loop"
    /\ args.variant = "banded"
    /\ IF ~(NumAllocated < N)
       THEN /\ pc' = "done"
            /\ UNCHANGED <<clusters, previous, scan>>
       ELSE IF NothingToScan(clusters, increment)
       THEN /\ pc' = "threw"
            /\ previous' = NumAllocated
            /\ UNCHANGED <<clusters, scan>>
       ELSE /\ previous' = NumAllocated
            /\ clusters' = IF increment > 0
                           THEN SeedBanded(clusters, kmerIndex, allKmers,
                                           firstUnallocIndex, 0, args)
                           ELSE clusters
            /\ scan' = [t \in 0..(args.numThreads - 1) |->
                           IF firstUnallocIndex[t] < EndIdx(t, args)
                           THEN [pc |-> "scan", i |-> firstUnallocIndex[t]]
                           ELSE Joined]
            /\ pc' = "scan"
    /\ UNCHANGED <<call, firstRun, args, kmerIndex, allKmers, firstUnallocIndex, firstClusterIndex,
                   increment, rand>>

\* Lines 478-510 by thread t: one iteration of the scan of its band.
BandedScan(t) ==
    /\ pc = "scan"
    /\ args.variant = "banded"
    /\ scan[t].pc = "scan"
    /\ LET i == scan[t].i
           kmer == allKmers[i + 1]
           fit == FirstFit(kmerIndex[kmer].encoding, clusters, firstClusterIndex,
                           args.wordLength, args.threshold)
           move == fit.kind = "hit" /\ i > firstUnallocIndex[t]
       IN  IF fit.kind = "crash"
           THEN /\ pc' = "crashed"
                /\ UNCHANGED <<kmerIndex, clusters, allKmers, firstUnallocIndex, scan>>
           ELSE /\ pc' = pc
                /\ kmerIndex' = IF fit.kind = "hit"
                                THEN [kmerIndex EXCEPT
                                         ![kmer].distanceFromPrototype = fit.dist]
                                ELSE kmerIndex
                /\ clusters' = IF fit.kind = "hit"
                               THEN AddParallel(clusters, fit.j, kmer, fit.dist)
                               ELSE clusters
                /\ allKmers' = IF move
                               THEN Swap(allKmers, firstUnallocIndex[t], i)
                               ELSE allKmers
                /\ firstUnallocIndex' = IF move
                                        THEN [firstUnallocIndex EXCEPT ![t] = @ + 1]
                                        ELSE firstUnallocIndex
                /\ scan' = [scan EXCEPT ![t] = IF i + 1 < EndIdx(t, args)
                                               THEN [pc |-> "scan", i |-> i + 1]
                                               ELSE Joined]
    /\ UNCHANGED <<call, firstRun, args, firstClusterIndex, increment, previous, rand>>

\* The end of a pass which does not wait for the threads of the scan.
BandedJoinEarly ==
    /\ pc = "scan"
    /\ args.variant = "banded"
    /\ scan' = <<>>
    /\ IF NoProgress(NumAllocated, previous)
       THEN /\ pc' = "done"
            /\ UNCHANGED <<increment, firstClusterIndex>>
       ELSE /\ pc' = "loop"
            /\ increment' = args.clusterIncrement
            /\ firstClusterIndex' = Len(clusters)
    /\ UNCHANGED <<call, firstRun, args, kmerIndex, allKmers, clusters, firstUnallocIndex,
                   previous, rand>>

\* The end of the parallel region of the scan, and lines 614-622.
BandedJoin ==
    /\ pc = "scan"
    /\ args.variant = "banded"
    /\ \A t \in DOMAIN scan : scan[t] = Joined
    /\ scan' = <<>>
    /\ IF NoProgress(NumAllocated, previous)
       THEN /\ pc' = "done"
            /\ UNCHANGED <<increment, firstClusterIndex>>
       ELSE /\ pc' = "loop"
            /\ increment' = args.clusterIncrement
            /\ firstClusterIndex' = Len(clusters)
    /\ UNCHANGED <<call, firstRun, args, kmerIndex, allKmers, clusters, firstUnallocIndex,
                   previous, rand>>

Next ==
    \/ GlobalSetup
    \/ GlobalPass
    \/ \E i \in DOMAIN scan : GlobalReadKmer(i)
    \/ \E i \in DOMAIN scan : GlobalFindAttractor(i)
    \/ \E i \in DOMAIN scan : GlobalAdd(i)
    \/ \E i \in DOMAIN scan : GlobalCritical(i)
    \/ GlobalJoin
    \/ BandedFork
    \/ \E t \in DOMAIN scan : BandedFilter(t)
    \/ \E t \in DOMAIN scan : BandedDraw(t)
    \/ \E t \in DOMAIN scan : BandedShuffle(t)
    \/ BandedSetupJoin
    \/ BandedPass
    \/ \E t \in DOMAIN scan : BandedScan(t)
    \/ BandedJoin

Spec == Init /\ [][Next]_vars

\* Every thread of a parallel region is scheduled again and again, and the
\* thread which runs the while loop goes on after the region.
FairSpec == Spec /\ WF_vars(Next)

\* What a run leaves behind: how it ended, and the clusters as the set of
\* their prototype words with their sets of members.
Outcome ==
    [pc |-> pc,
     clusters |-> {[prototype |-> clusters[c].prototype.substring,
                    members |-> {clusters[c].kmers[m].kmer :
                                    m \in DOMAIN clusters[c].kmers}] :
                      c \in DOMAIN clusters}]

\* AAClust is started again on the same files with the same arguments but
\* for the clustering mode, which is v.
Rerun(v) ==
    /\ pc \in {"done", "threw", "crashed"}
    /\ firstRun = NoRun
    /\ firstRun' = [variant |-> args.variant, outcome |-> Outcome]
    /\ args' = [args EXCEPT !.variant = v]
    /\ kmerIndex' = KmerIndex(args.db, args.wordLength)
    /\ allKmers' = <<>>
    /\ clusters' = InitialiseClusters(args.protos, args.wordLength)
    /\ firstUnallocIndex' = FirstUnallocIndex(args')
    /\ firstClusterIndex' = 0
    /\ increment' = 0
    /\ previous' = 0
    /\ rand' = UniformRealRandom(args.seed)
    /\ pc' = "start"
    /\ scan' = <<>>
    /\ call' = call

NextRuns ==
    \/ Next
    \/ \E v \in Variants : Rerun(v)

SpecRuns == Init /\ [][NextRuns]_vars

\* ------------------------------------------------------------ what is counted
RECURSIVE InstanceCountLoop(_, _, _)
\* std::accumulate over the members: init + kmer.Instances().size().
InstanceCountLoop(members, index, init) ==
    IF members = <<>> THEN init
    ELSE InstanceCountLoop(Tail(members), index,
                           init + Len(index[Head(members).kmer].instances))

\* KmerCluster::InstanceCount.
InstanceCount(cluster, index) == InstanceCountLoop(cluster.kmers, index, 0)

RECURSIVE Occurrences(_, _)
\* The number of k-mer positions of a database: the sum of KmerCount over
\* the sequences which are not shorter than a k-mer.
Occurrences(db, kmerLength) ==
    IF db = <<>> THEN 0
    ELSE (IF Len(Head(db)) >= kmerLength THEN Len(Head(db)) + 1 - kmerLength ELSE 0)
         + Occurrences(Tail(db), kmerLength)

\* ------------------------------------------- operations called on their own
\* The main variables while one operation is called on its own: no run of
\* AAClust is going on.
Idle ==
    /\ args = [variant |-> "none"]
    /\ kmerIndex = <<>>
    /\ allKmers = <<>>
    /\ clusters = <<>>
    /\ firstUnallocIndex = 0
    /\ firstClusterIndex = 0
    /\ increment = 0
    /\ previous = 0
    /\ rand = 0
    /\ pc = "idle"
    /\ scan = <<>>
    /\ firstRun = NoRun

\* The call has returned.
Returned == "out" \in DOMAIN call

\* The operation returns out.
Return(out) ==
    /\ ~Returned
    /\ call' = [f \in DOMAIN call \cup {"out"} |->
                    IF f = "out" THEN out ELSE call[f]]
    /\ UNCHANGED <<args, kmerIndex, allKmers, clusters, firstUnallocIndex,
                   firstClusterIndex, increment, previous, rand, pc, scan,
                   firstRun>>

\* ---- KmerIndex
\* The longest sequence handed to a KmerIndex called on its own.
MaxIndexSeqLen == 6

\* The kmerLength of the index; the sequences were encoded for the word
\* length of WordLengths, which may be shorter.
IndexKmerLengths == {4, 6}

\* The sequences of a collection: every sequence of 3 to MaxIndexSeqLen
\* symbols.
IndexSequences == UNION {[1..l -> Chars] : l \in 3..MaxIndexSeqLen}

\* A second sequence of the collection: one repeating words of the first,
\* one with a symbol in upper case.
SecondSequences ==
    {<<"b", "a", "b", "a", "b", "a">>, <<"a", "A", "a", "a", "a", "a">>}

\* The collections of sequences.
IndexDatabases ==
    {<<s>> : s \in IndexSequences}
    \cup {<<s, t>> : s \in IndexSequences, t \in SecondSequences}

\* The EncodedFastaSequence objects of a collection.
Dataset(db, wordLength) ==
    [i \in 1..Len(db) |-> EncodedFastaSequence(db[i], wordLength)]

\* The Subsequence windows over n sequences: one window anywhere, or a
\* window of the first sequence followed by a window at the head of any one.
Windows(n) ==
    {<<w>> : w \in [source : 1..n, start : 0..MaxIndexSeqLen,
                    length : 0..MaxIndexSeqLen]}
    \cup {<<[source |-> 1, start |-> 0, length |-> MaxIndexSeqLen + more],
            [source |-> s2, start |-> 0, length |-> MaxIndexSeqLen]>> :
                more \in 0..1, s2 \in 1..n}

RECURSIVE KmerIndexSubsequenceLoop(_, _, _, _, _, _)
\* The loops of KmerIndex::KmerIndex(substrings, kmerLength): kmerPos is
\* substring.start + offset.
KmerIndexSubsequenceLoop(dataset, substrings, kmerLength, i, offset, index) ==
    IF i > Len(substrings) THEN index
    ELSE LET substring == substrings[i]
             seq == dataset[substring.source]
             kmerCount == KmerCount(seq, kmerLength)
             kmerPos == substring.start + offset
         IN  IF ~(kmerPos < kmerCount
                  /\ kmerPos + kmerLength <= substring.start + substring.length)
             THEN KmerIndexSubsequenceLoop(dataset, substrings, kmerLength,
                                           i + 1, 0, index)
             ELSE LET s == Substring(seq.sequence, kmerPos, kmerLength)
                      item == {n \in 1..Len(index) : index[n].substring = s}
                  IN  IF item = {}
                      THEN KmerIndexSubsequenceLoop(dataset, substrings,
                               kmerLength, i, offset + 1,
                               Append(index, KmerAdd(Kmer(s), substring.source,
                                                     seq, kmerPos)))
                      ELSE KmerIndexSubsequenceLoop(dataset, substrings,
                               kmerLength, i, offset + 1,
                               [index EXCEPT ![CHOOSE n \in item : TRUE] =
                                   KmerAdd(@, substring.source, seq, kmerPos)])

\* The calls of the KmerIndex constructors.
IndexCalls(databases) ==
    {[op |-> "KmerIndex", in |-> i] :
        i \in [db : databases, wordLength : WordLengths,
               kmerLength : IndexKmerLengths]}
    \cup {[op |-> "KmerIndexSubsequence", in |-> i] :
        i \in [db : {<<s, <<"a", "b", "a", "b">> >> :
                        s \in [1..MaxIndexSeqLen -> Chars]},
               wordLength : WordLengths, kmerLength : IndexKmerLengths,
               substrings : Windows(2)]}

\* KmerIndex::KmerIndex(dataset, kmerLength).
CallKmerIndex ==
    /\ call.op = "KmerIndex"
    /\ Return(KmerIndexLoop(Dataset(call.in.db, call.in.wordLength),
                            call.in.kmerLength, 1, 0, <<>>))

\* KmerIndex::KmerIndex(substrings, kmerLength).
CallKmerIndexSubsequence ==
    /\ call.op = "KmerIndexSubsequence"
    /\ Return(KmerIndexSubsequenceLoop(Dataset(call.in.db, call.in.wordLength),
                                       call.in.substrings, call.in.kmerLength,
                                       1, 0, <<>>))

\* ---- Alphabet
\* The longest k-mer handed to Encode, Decode and the distance caches called
\* on their own.
MaxKmerLen == 4

\* The k-mers of kmerLength symbols, the first of them in either case.
Kmers(kmerLength) ==
    {w \in [1..kmerLength -> Chars \cup {"A"}] :
        \A i \in 2..kmerLength : w[i] \in Chars}

\* The calls of Encode followed by Decode.
AlphabetCalls(lengths) ==
    {[op |-> "Encode", in |-> i] :
        i \in {j \in [kmer : UNION {Kmers(k) : k \in lengths},
                      kmerLength : lengths, charsPerWord : 1..3] :
                 Len(j.kmer) = j.kmerLength}}

\* Alphabet::Encode(s, kmerLength, charsPerWord, code), then
\* Alphabet::Decode(code, kmerLength, charsPerWord, charBuffer).
CallEncode ==
    /\ call.op = "Encode"
    /\ LET code == Encode(call.in.kmer, call.in.kmerLength, call.in.charsPerWord)
       IN  Return([code |-> code,
                   decoded |-> DecodeKmer(code, call.in.kmerLength,
                                          call.in.charsPerWord)])

\* ---- KmerDistanceCache2 and KmerDistanceCache3
\* The similarity matrices, dict after Parse: the matrix of the runs, and a
\* custom matrix file whose values are far apart.
Matrices ==
    {dict,
     [s \in Chars \cup {"x"} |-> [t \in Chars \cup {"x"} |->
         IF s = "a" /\ t = "a" THEN 100 ELSE 0]]}

\* SimilarityMatrix::maxValue of a matrix.
MaxValueOf(matrix) ==
    CHOOSE v \in {matrix[s][t] : s \in Chars, t \in Chars} :
        \A s \in Chars, t \in Chars : matrix[s][t] <= v

\* BlosumDifferenceFunction::operator() over a matrix; similarity[i] is the
\* sum SimilarityMatrix::Similarity has made of the symbols from i on.
BlosumDifferenceOf(matrix, x, y, length) ==
    LET similarity[i \in 0..length] ==
            IF i >= length THEN 0
            ELSE matrix[x[i + 1]][y[i + 1]] + similarity[i + 1]
    IN  (length * MaxValueOf(matrix) - (similarity[0] % DistanceMod)) % DistanceMod

\* KmerDistanceCache::PrecomputeDistances over a matrix: kmerDistances1,
\* kmerDistances2 and kmerDistances3 are the tables for charsPerWord 1, 2, 3.
PrecomputeDistancesOf(matrix, charsPerWord) ==
    [i \in 0..(VocabSize(charsPerWord) - 1) |->
        [j \in 0..(VocabSize(charsPerWord) - 1) |->
            CacheType(BlosumDifferenceOf(matrix, Decode(i, charsPerWord),
                                         Decode(j, charsPerWord), charsPerWord))]]

\* KmerDistanceCache3::GetDistance (charsPerWord 3) and
\* KmerDistanceCache2::operator() (charsPerWord 2) over the tables of matrix;
\* dist[i] is the Distance dist after i turns of the loop.
GetDistance(matrix, charsPerWord, sKmerCode, tKmerCode, kmerLength) ==
    LET numWords == kmerLength \div charsPerWord
        rem == kmerLength % charsPerWord
        entry(n, i) ==
            PrecomputeDistancesOf(matrix, n)[sKmerCode[i + 1]][tKmerCode[i + 1]]
        dist[i \in 0..numWords] ==
            IF i = 0 THEN 0
            ELSE (dist[i - 1] + entry(charsPerWord, i - 1)) % DistanceMod
    IN  IF rem > 0 THEN (dist[numWords] + entry(rem, numWords)) % DistanceMod
        ELSE dist[numWords]

\* KmerDistanceCache3::IsWithin (charsPerWord 3) and
\* KmerDistanceCache2::IsWithin (charsPerWord 2) over the tables of matrix;
\* step[i] is where the function stands after i turns of the loop: it has
\* returned false, or dist is step[i].result. A return of false leaves
\* result unwritten.
IsWithin(matrix, charsPerWord, sKmerCode, tKmerCode, kmerLength, threshold) ==
    LET numWords == kmerLength \div charsPerWord
        rem == kmerLength % charsPerWord
        entry(n, i) ==
            PrecomputeDistancesOf(matrix, n)[sKmerCode[i + 1]][tKmerCode[i + 1]]
        add(before, n, i) ==
            IF ~before.within THEN before
            ELSE LET d == (before.result + entry(n, i)) % DistanceMod
                 IN  IF d > threshold THEN [within |-> FALSE]
                     ELSE [within |-> TRUE, result |-> d]
        step[i \in 0..numWords] ==
            IF i = 0 THEN [within |-> TRUE, result |-> 0]
            ELSE add(step[i - 1], charsPerWord, i - 1)
    IN  IF rem > 0 THEN add(step[numWords], rem, numWords) ELSE step[numWords]

\* The calls of the distance functions of the two caches on the packed codes
\* of two k-mers s and t, with the thresholds of IsWithin.
DistanceCalls(matrices) ==
    LET pairs == {j \in [matrix : matrices, charsPerWord : 2..3,
                         kmerLength : 1..MaxKmerLen,
                         s : UNION {[1..k -> Chars] : k \in 1..MaxKmerLen},
                         t : UNION {[1..k -> Chars] : k \in 1..MaxKmerLen}] :
                    Len(j.s) = j.kmerLength /\ Len(j.t) = j.kmerLength}
    IN  {[op |-> "GetDistance", in |-> i] : i \in pairs}
        \cup {[op |-> "IsWithin", in |-> i, threshold |-> th] :
                    i \in pairs, th \in {0, 2, 50, MaxDistance}}

\* The packed code of a k-mer of the call.
Code(kmer) == Encode(kmer, call.in.kmerLength, call.in.charsPerWord)

\* GetDistance(sKmerCode, tKmerCode, kmerLength).
CallGetDistance ==
    /\ call.op = "GetDistance"
    /\ Return(GetDistance(call.in.matrix, call.in.charsPerWord, Code(call.in.s),
                          Code(call.in.t), call.in.kmerLength))

\* IsWithin(sKmerCode, tKmerCode, kmerLength, threshold, result).
CallIsWithin ==
    /\ call.op = "IsWithin"
    /\ Return(IsWithin(call.in.matrix, call.in.charsPerWord, Code(call.in.s),
                       Code(call.in.t), call.in.kmerLength, call.threshold))

\* ---- KmerDistanceCache::PrecomputeDistances
\* An assertion which is never checked.
AssertOff(cond) == "ok"

\* Assert::IsTrue(cond, file, line): it throws an Exception when cond is
\* false.
AssertIsTrue(cond) == IF ~cond THEN "Exception" ELSE "ok"

\* The alphabet sizes and charsPerWord PrecomputeDistances is called with.
PrecomputeCalls(widths) ==
    {[op |-> "PrecomputeDistances", in |-> i] :
        i \in [len : {2, 4, 20, 24, 40, 41, 128, 255, 256}, charsPerWord : widths]}

\* KmerDistanceCache::PrecomputeDistances up to the allocation of vocab: the
\* Exception of assert_true, or vocabSize_.
CallPrecomputeDistances ==
    /\ call.op = "PrecomputeDistances"
    /\ LET vocabSize == Power(call.in.len, call.in.charsPerWord)
       IN  IF AssertIsTrue(vocabSize <= KmerWordMod - 1) = "Exception"
           THEN Return([threw |-> TRUE])
           ELSE Return([threw |-> FALSE, vocabSize |-> vocabSize])

\* ---- KmerCluster::InstanceCount and KmerCluster::Size
\* Instance counts are written in units of 2^20 instances; an int holds 2^32
\* values, which is this many units.
IntModUnits == 4096

\* The conversion of a size_t to int, both in units: the value an int holds
\* is at least -2^31 and less than 2^31.
ToInt(x) == ((x + IntModUnits \div 2) % IntModUnits) - IntModUnits \div 2

\* The clusters, given as kmer.Instances().size() of their members, in units.
CountCalls(members) ==
    {[op |-> "InstanceCount", in |-> sizes] :
        sizes \in UNION {[1..n -> {0, 1, 1023, 1024, 2047}] : n \in members}}

\* KmerCluster::InstanceCount: std::accumulate from the int 0, the lambda
\* adding as size_t; count[i] is the int kept after i members. The size_t
\* returned is written as the number it is congruent to modulo 2^64 which is
\* nearest to 0.
InstanceCountOf(sizes) ==
    LET count[i \in 0..Len(sizes)] ==
            IF i = 0 THEN 0 ELSE ToInt(count[i - 1] + sizes[i])
    IN  count[Len(sizes)]

\* KmerCluster::Size: total += k.Instances().size(), a size_t.
SizeOf(sizes) ==
    LET total[i \in 0..Len(sizes)] ==
            IF i = 0 THEN 0 ELSE total[i - 1] + sizes[i]
    IN  total[Len(sizes)]

\* InstanceCount() and Size() of one cluster.
CallInstanceCount ==
    /\ call.op = "InstanceCount"
    /\ Return([instanceCount |-> InstanceCountOf(call.in),
               size |-> SizeOf(call.in)])

\* ---- KMedoids
\* KMedoids::SelectMode.
SelectModes == {"SelectGreedy", "SelectNearest"}

\* KMedoids::MedoidMode.
MedoidModes == {"MedoidBruteForce", "MedoidMeddit", "MedoidNone"}

\* The thresholds of the partitions.
PartitionThresholds == {2, 4}

\* The iterations of a trial.
PartitionIterations == {1, 2}

\* The default of the parameter trials.
DefaultTrials == 40

\* The parameter trials: one trial, or the default.
PartitionTrialCounts == {1, DefaultTrials}

\* The calls of KMedoids::Partition with sortMode SortRandom: seqs are the
\* domain instances in the order the shuffle left them, each covering the
\* whole of its source, the sources being of one length. The clusters of
\* these calls are far smaller than minMedditSize, so that MedoidMeddit
\* calls GetMedoid as MedoidBruteForce does. No threshold is
\* numeric_limits<Distance>::max().
PartitionCalls(trialCounts) ==
    {[op |-> "Partition", in |-> i] :
        i \in [db : UNION {{<<s, t>> : s \in [1..Len(t) -> Chars]} :
                                t \in SecondSequences},
               seqs : {<<1, 2>>, <<2, 1>>, <<1>>},
               kmerLength : WordLengths,
               threshold : PartitionThresholds,
               selectMode : SelectModes,
               medoidMode : MedoidModes,
               iterations : PartitionIterations,
               trials : trialCounts]}

\* The loop over the prototypes with SelectNearest keeping the last of the
\* nearest prototypes.
NearestProtoLast(protos, currentCode, kmerLength, threshold, selectMode) ==
    LET compare(before, k, currentDist) ==
            IF selectMode = "SelectNearest"
            THEN IF currentDist <= before.smallestDistance
                 THEN [nearestProtoPos |-> k, smallestDistance |-> currentDist,
                       break |-> FALSE]
                 ELSE before
            ELSE IF currentDist <= threshold
                 THEN [nearestProtoPos |-> k, smallestDistance |-> currentDist,
                       break |-> TRUE]
                 ELSE before
        look(before, k) ==
            IF before.break \/ protos[k].encoding = NULL THEN before
            ELSE compare(before, k,
                         KmerDistanceCache2(currentCode, protos[k].encoding,
                                            kmerLength))
        step[k \in 0..Len(protos)] ==
            IF k = 0
            THEN [nearestProtoPos |-> 0, smallestDistance |-> MaxDistance,
                  break |-> FALSE]
            ELSE look(step[k - 1], k)
    IN  step[Len(protos)]

\* The loop over the prototypes for the k-mer of code currentCode: step[k]
\* is nearestProtoPos (as a position from 1, 0 the value it starts with),
\* smallestDistance and whether the loop was left, after k prototypes. A
\* null prototype has the encoding NULL.
NearestProto(protos, currentCode, kmerLength, threshold, selectMode) ==
    LET compare(before, k, currentDist) ==
            IF selectMode = "SelectNearest"
            THEN IF currentDist < before.smallestDistance
                 THEN [nearestProtoPos |-> k, smallestDistance |-> currentDist,
                       break |-> FALSE]
                 ELSE before
            ELSE IF currentDist <= threshold
                 THEN [nearestProtoPos |-> k, smallestDistance |-> currentDist,
                       break |-> TRUE]
                 ELSE before
        look(before, k) ==
            IF before.break \/ protos[k].encoding = NULL THEN before
            ELSE compare(before, k,
                         KmerDistanceCache2(currentCode, protos[k].encoding,
                                            kmerLength))
        step[k \in 0..Len(protos)] ==
            IF k = 0
            THEN [nearestProtoPos |-> 0, smallestDistance |-> MaxDistance,
                  break |-> FALSE]
            ELSE look(step[k - 1], k)
    IN  step[Len(protos)]

\* The assignment loop of one iteration: kmersPerCluster, the positions of
\* the k-mers pushed to each prototype in the order of n.
AssignKmers(kmers, protos, kmerLength, threshold, selectMode) ==
    LET nearest[n \in 0..Len(kmers)] ==
            IF n = 0 THEN <<>>
            ELSE Append(nearest[n - 1],
                        NearestProto(protos, kmers[n].encoding, kmerLength,
                                     threshold, selectMode))
        push(before, found, k, n) ==
            IF found.smallestDistance <= threshold /\ found.nearestProtoPos = k
            THEN Append(before, n)
            ELSE before
        perCluster(near) ==
            LET pushed[k \in 1..Len(protos), n \in 0..Len(kmers)] ==
                    IF n = 0 THEN <<>>
                    ELSE push(pushed[k, n - 1], near[n], k, n)
                kmersPerCluster[k \in 0..Len(protos)] ==
                    IF k = 0 THEN <<>>
                    ELSE Append(kmersPerCluster[k - 1], pushed[k, Len(kmers)])
            IN  kmersPerCluster[Len(protos)]
    IN  perCluster(nearest[Len(kmers)])

\* The first member of the cluster whatever the distances, and never a null
\* pointer.
GetMedoidFirst(kmers, clusterAssignment, kmerLength) ==
    IF Len(clusterAssignment) > 0 THEN kmers[clusterAssignment[1]]
    ELSE kmers[1]

\* KMedoids::GetMedoid: the first member of the cluster with the smallest
\* sum of distances to the members (itself among them), a null pointer for
\* an empty cluster.
GetMedoid(kmers, clusterAssignment, kmerLength) ==
    LET N_k == Len(clusterAssignment)
        sum[c \in 1..Len(kmers), j \in 0..N_k] ==
            IF j = 0 THEN 0
            ELSE sum[c, j - 1]
                 + KmerDistanceCache2(kmers[c].encoding,
                       kmers[clusterAssignment[j]].encoding, kmerLength)
        dist[c \in 0..Len(kmers)] ==
            IF c = 0 THEN <<>> ELSE Append(dist[c - 1], sum[c, N_k])
        medoid(allocatedDist) ==
            LET smaller(before, candidatePos) ==
                    IF allocatedDist[candidatePos] < allocatedDist[before]
                    THEN candidatePos ELSE before
                minimalDistPos[i \in 0..N_k] ==
                    IF i = 0 THEN clusterAssignment[1]
                    ELSE smaller(minimalDistPos[i - 1], clusterAssignment[i])
            IN  kmers[minimalDistPos[N_k]]
    IN  IF N_k > 0 THEN medoid(dist[Len(kmers)]) ELSE Kmer(<<>>)

RECURSIVE PartitionIterate(_, _, _, _, _)
\* The iterations of one trial from iteration iter on: the assignment of
\* the k-mers to the prototypes, then the new prototypes. It yields protos,
\* kmersPerCluster and numAssignedKmers as the trial leaves them.
PartitionIterate(kmers, protos, kmersPerCluster, in, iter) ==
    LET count[k \in 0..Len(protos)] ==
            IF k = 0 THEN 0
            ELSE count[k - 1]
                 + SizeOf([i \in 1..Len(kmersPerCluster[k]) |->
                              Len(kmers[kmersPerCluster[k][i]].instances)])
        update(assigned) ==
            LET next[k \in 0..Len(protos)] ==
                    IF k = 0 THEN <<>>
                    ELSE Append(next[k - 1],
                            IF in.medoidMode = "MedoidNone"
                            THEN kmers[CHOOSE n \in 1..Len(kmers) :
                                    kmers[n].substring = protos[k].substring]
                            ELSE GetMedoid(kmers, assigned[k], in.kmerLength))
            IN  PartitionIterate(kmers, next[Len(protos)], assigned, in,
                                 iter + 1)
    IN  IF iter >= in.iterations
        THEN [protos |-> protos, kmersPerCluster |-> kmersPerCluster,
              numAssignedKmers |-> count[Len(protos)]]
        ELSE update(AssignKmers(kmers, protos, in.kmerLength, in.threshold,
                                in.selectMode))

\* KMedoids::CreateCluster: a new Kmer made of the first instance of
\* protoKmer, and the k-mers assigned to it.
CreateCluster(dataset, protoKmer, kmers, clusterAssignment) ==
    LET create(seq, first) ==
            [prototype |->
                KmerAdd(Kmer(Substring(seq.sequence, first.kmerPosition,
                                       Len(protoKmer.substring))),
                        first.sequence, seq, first.kmerPosition),
             kmers |-> [i \in 1..Len(clusterAssignment) |->
                           kmers[clusterAssignment[i]]]]
    IN  create(dataset[protoKmer.instances[1].sequence],
               protoKmer.instances[1])

\* Trial number t of KMedoids::Partition, seeded by the k-mers of seqs[t]:
\* protos, kmersPerCluster and numAssignedKmers when its iterations end.
Trial(dataset, seqs, kmers, in, t) ==
    PartitionIterate(kmers,
                     KmerIndexSubsequenceLoop(dataset, <<seqs[t]>>,
                                              in.kmerLength, 1, 0, <<>>),
                     <<>>, in, 0)

\* The trials with the latest of the trials which assigned the most kept.
BestTrialLatest(dataset, seqs, kmers, in) ==
    LET better(this, before) ==
            IF this.numAssignedKmers >= before.numAssignedKmers
            THEN this ELSE before
        best[t \in 0..Min(Len(seqs), in.trials)] ==
            IF t = 0
            THEN [protos |-> <<>>, kmersPerCluster |-> <<>>,
                  numAssignedKmers |-> 0]
            ELSE better(Trial(dataset, seqs, kmers, in, t), best[t - 1])
    IN  best[Min(Len(seqs), in.trials)]

\* The trials of KMedoids::Partition over the k-mers of seqs, one from the
\* k-mers of each of the first sequences: bestProtos, bestKmersPerCluster
\* and bestAssignedKmers after the last trial.
BestTrial(dataset, seqs, kmers, in) ==
    LET better(this, before) ==
            IF this.numAssignedKmers > before.numAssignedKmers
            THEN this ELSE before
        best[t \in 0..Min(Len(seqs), in.trials)] ==
            IF t = 0
            THEN [protos |-> <<>>, kmersPerCluster |-> <<>>,
                  numAssignedKmers |-> 0]
            ELSE better(Trial(dataset, seqs, kmers, in, t), best[t - 1])
    IN  best[Min(Len(seqs), in.trials)]

\* The last loop of KMedoids::Partition: a cluster for every prototype of
\* the best trial which is not null.
CreateClusters(dataset, kmers, bestProtos, bestKmersPerCluster) ==
    LET add(before, k) ==
            IF bestProtos[k].encoding = NULL THEN before
            ELSE Append(before,
                        CreateCluster(dataset, bestProtos[k], kmers,
                                      bestKmersPerCluster[k]))
        created[k \in 0..Len(bestProtos)] ==
            IF k = 0 THEN <<>> ELSE add(created[k - 1], k)
    IN  created[Len(bestProtos)]

\* The end of KMedoids::Partition: the clusters of the best trial.
PartitionTrials(dataset, seqs, kmers, in) ==
    LET finish(theBest) ==
            CreateClusters(dataset, kmers, theBest.protos,
                           theBest.kmersPerCluster)
    IN  finish(BestTrial(dataset, seqs, kmers, in))

\* KMedoids::Partition: the index of the k-mers of seqs, then the trials.
Partition(in) ==
    LET index(dataset, seqs) ==
            PartitionTrials(dataset, seqs,
                KmerIndexSubsequenceLoop(dataset, seqs, in.kmerLength, 1, 0,
                                         <<>>),
                in)
    IN  index(Dataset(in.db, in.kmerLength),
              [i \in 1..Len(in.seqs) |->
                  [source |-> in.seqs[i], start |-> 0,
                   length |-> Len(in.db[in.seqs[i]])]])

\* KMedoids::Partition called on the domain instances.
CallPartition ==
    /\ call.op = "Partition"
    /\ Return(Partition(call.in))

\* The sequences of the calls of the steps of a trial.
TrialSequences == UNION {[1..Len(t) -> Chars] : t \in SecondSequences}

\* The prototypes of up to three candidates over n k-mers, each the
\* position of a k-mer, no k-mer twice, or 0 for a null prototype.
ProtoChoices(n) ==
    {q \in UNION {[1..l -> 0..n] : l \in {1, 2, 3}} :
        \A i, j \in DOMAIN q : (i # j /\ q[i] # 0) => q[i] # q[j]}

\* protos and protoCodes for the positions q: a null prototype has the
\* encoding NULL.
ProtosAt(kmers, q) ==
    [k \in DOMAIN q |-> IF q[k] = 0 THEN Kmer(<<>>) ELSE kmers[q[k]]]

\* The calls of the assignment loop of an iteration of a trial.
AssignCalls(sequences) ==
    UNION {{[op |-> "AssignKmers",
             in |-> [db |-> <<s>>, kmerLength |-> w, threshold |-> th,
                     selectMode |-> m, protos |-> q]] :
                th \in PartitionThresholds, m \in SelectModes,
                q \in ProtoChoices(Len(KmerIndex(<<s>>, w)))} :
           s \in sequences, w \in WordLengths}

\* The assignment loop of KMedoids::Partition, lines 150-183.
CallAssignKmers ==
    /\ call.op = "AssignKmers"
    /\ LET assign(kmers) ==
               AssignKmers(kmers, ProtosAt(kmers, call.in.protos),
                           call.in.kmerLength, call.in.threshold,
                           call.in.selectMode)
       IN  Return(assign(KmerIndex(call.in.db, call.in.kmerLength)))

\* ---- the calls
Calls(sequences) ==
    IndexCalls(IndexDatabases) \cup AlphabetCalls(1..MaxKmerLen)
    \cup DistanceCalls(Matrices) \cup PrecomputeCalls(1..3)
    \cup CountCalls(0..3) \cup PartitionCalls(PartitionTrialCounts)
    \cup AssignCalls(sequences)

InitCalls == Idle /\ call \in Calls(TrialSequences)

NextCalls ==
    \/ CallKmerIndex
    \/ CallKmerIndexSubsequence
    \/ CallEncode
    \/ CallGetDistance
    \/ CallIsWithin
    \/ CallPrecomputeDistances
    \/ CallInstanceCount
    \/ CallPartition
    \/ CallAssignKmers

SpecCalls == InitCalls /\ [][NextCalls]_vars

\* ------------------------------------------- the medoids of KMedoids
\* minMedditSize as KMedoids::Partition declares it.
DefaultMinMedditSize == 1000

MinMedditSizes == {1, DefaultMinMedditSize}

\* sigma, the deviation of the distances of a cluster: the square root of a
\* variance, so never negative.
Sigmas == {0, 1}

\* lower, upper and the means are kept in units of 1/MeanScale, which the
\* counts 1, 2, 3 and 4 divide.
MeanScale == 12000

\* sqrt(2 * log(2 / delta) / n) for delta = 1e-2 and n = 1, 2, 3, 4, in
\* units of 1/MeanScale.
ConfidenceWidth == <<39063, 27622, 22553, 19531>>

\* The lambda confidence of GetMedoid_MEDDIT.
confidence(sigma, n) == sigma * ConfidenceWidth[n]

\* double(distSum) / distCount.
Mean(distSum, distCount) == (MeanScale * distSum) \div distCount

\* The lists of k-mers a cluster is made of: positions among n k-mers, none
\* twice.
ClusterAssignments(n) ==
    {q \in UNION {[1..l -> 1..n] : l \in 0..n} :
        \A i, j \in DOMAIN q : i # j => q[i] # q[j]}

\* The calls of GetMedoid.
GetMedoidCalls(sequences) ==
    UNION {{[op |-> "GetMedoid",
             in |-> [kmers |-> KmerIndex(<<s>>, w),
                     kmerLength |-> w, clusterAssignment |-> q]] :
                q \in ClusterAssignments(Len(KmerIndex(<<s>>, w)))} :
           s \in sequences, w \in WordLengths}

\* The calls of GetMedoid_MEDDIT.
MedditCalls(sequences) ==
    UNION {{[op |-> "GetMedoid_MEDDIT",
             in |-> [kmers |-> KmerIndex(<<s>>, w),
                     kmerLength |-> w, clusterAssignment |-> q,
                     sigma |-> g]] :
                q \in ClusterAssignments(Len(KmerIndex(<<s>>, w))),
                g \in Sigmas} :
           s \in sequences, w \in WordLengths}

\* The calls of the step which gives candidate k of an iteration its new
\* prototype: proto is the position of its prototype so far, sigma what
\* the distances of the cluster come to.
UpdateProtoCalls(sequences) ==
    UNION {{[op |-> "UpdateProto",
             in |-> [kmers |-> KmerIndex(<<s>>, w),
                     kmerLength |-> w, clusterAssignment |-> q,
                     sigma |-> 1, medoidMode |-> m, minMedditSize |-> z,
                     proto |-> q[1]]] :
                q \in ClusterAssignments(Len(KmerIndex(<<s>>, w))) \ {<<>>},
                m \in MedoidModes, z \in MinMedditSizes} :
           s \in sequences, w \in WordLengths}

\* The calls of the iterations of a trial from prototypes some of which
\* are null; no prototype is null with MedoidNone.
IterateCalls(sequences) ==
    UNION {{[op |-> "Iterate",
             in |-> [kmers |-> KmerIndex(<<s>>, w),
                     kmerLength |-> w, threshold |-> th,
                     selectMode |-> "SelectNearest", medoidMode |-> m,
                     iterations |-> n, protos |-> q]] :
                th \in PartitionThresholds,
                m \in MedoidModes \ {"MedoidNone"},
                n \in {i \in PartitionIterations : i > 1},
                q \in {x \in ProtoChoices(Len(KmerIndex(<<s>>, w))) :
                          \E k \in DOMAIN x : x[k] = 0}} :
           s \in sequences, w \in WordLengths}

MedoidCalls(sequences) ==
    GetMedoidCalls(sequences) \cup MedditCalls(sequences)
    \cup UpdateProtoCalls(sequences) \cup IterateCalls(sequences)

\* kmers, the k-mers of the index the call works on.
KmersOfMedoidCall == call.in.kmers

\* distance(kmerCodes[a], kmerCodes[b], kmerLength) for the members i and j
\* of the cluster.
MemberDistance(kmers, clusterAssignment, i, j, kmerLength) ==
    KmerDistanceCache2(kmers[clusterAssignment[i]].encoding,
                       kmers[clusterAssignment[j]].encoding, kmerLength)

\* The call goes on with the state st of GetMedoid_MEDDIT.
MedditGoesOn(st) ==
    /\ call' = [f \in DOMAIN call \cup {"st"} |->
                    IF f = "st" THEN st ELSE call[f]]
    /\ UNCHANGED <<args, kmerIndex, allKmers, clusters, firstUnallocIndex,
                   firstClusterIndex, increment, previous, rand, pc, scan,
                   firstRun>>

\* GetMedoid_MEDDIT returns out from the state st.
MedditReturns(st, out) ==
    /\ call' = [f \in DOMAIN call \cup {"st", "out"} |->
                    IF f = "st" THEN st ELSE IF f = "out" THEN out
                    ELSE call[f]]
    /\ UNCHANGED <<args, kmerIndex, allKmers, clusters, firstUnallocIndex,
                   firstClusterIndex, increment, previous, rand, pc, scan,
                   firstRun>>

\* GetMedoid_MEDDIT is in its loops.
InMeddit == "st" \in DOMAIN call /\ ~Returned

\* GetMedoid_MEDDIT up to its step 1: a cluster of two or more enters the
\* loop of step 1 at candidate i = 1 with lower and upper just made; a
\* cluster of one returns its member, an empty one a null pointer.
MedditEnter(kmers, clusterAssignment) ==
    LET N_k == Len(clusterAssignment)
        zero == [c \in 1..N_k |-> 0]
    IN  /\ ~Returned
        /\ "st" \notin DOMAIN call
        /\ IF N_k > 1
           THEN MedditGoesOn([i |-> 1, distSum |-> zero, distCount |-> zero,
                              lower |-> zero, upper |-> zero])
           ELSE IF N_k = 1 THEN Return(kmers[clusterAssignment[1]])
           ELSE Return(Kmer(<<>>))

\* Step 1 for candidate i: the draw of j; the candidate itself is drawn
\* again, another member gives distSum, distCount = 1 and the bounds.
FirstSample(st, sigma, j, dist) ==
    IF j = st.i THEN st
    ELSE [i |-> st.i + 1,
          distSum |-> [st.distSum EXCEPT ![st.i] = dist],
          distCount |-> [st.distCount EXCEPT ![st.i] = 1],
          lower |-> [st.lower EXCEPT
                        ![st.i] = MeanScale * dist - confidence(sigma, 1)],
          upper |-> [st.upper EXCEPT
                        ![st.i] = MeanScale * dist + confidence(sigma, 1)]]

\* Step 3: the first of the candidates with the smallest lower bound.
TurnIndex(lower) ==
    CHOOSE i \in DOMAIN lower :
        /\ \A j \in DOMAIN lower : lower[i] <= lower[j]
        /\ \A j \in DOMAIN lower : j < i => lower[i] < lower[j]

\* Step 4 below N_k - 1 samples: one more sample for turnCandidate.
Sampled(st, sigma, turnIndex, dist) ==
    LET bounds(distSum, distCount) ==
            [i |-> st.i,
             distSum |-> [st.distSum EXCEPT ![turnIndex] = distSum],
             distCount |-> [st.distCount EXCEPT ![turnIndex] = distCount],
             lower |-> [st.lower EXCEPT
                           ![turnIndex] = Mean(distSum, distCount)
                                          - confidence(sigma, distCount)],
             upper |-> [st.upper EXCEPT
                           ![turnIndex] = Mean(distSum, distCount)
                                          + confidence(sigma, distCount)]]
    IN  bounds(st.distSum[turnIndex] + dist, st.distCount[turnIndex] + 1)

\* Step 4 otherwise: the distances of turnCandidate to all the others.
Exact(st, kmers, clusterAssignment, kmerLength, turnIndex) ==
    LET N_k == Len(clusterAssignment)
        distSum[i \in 0..N_k] ==
            IF i = 0 THEN 0
            ELSE IF i = turnIndex THEN distSum[i - 1]
            ELSE distSum[i - 1]
                 + MemberDistance(kmers, clusterAssignment, turnIndex, i,
                                  kmerLength)
        bounds(mu) ==
            [i |-> st.i,
             distSum |-> [st.distSum EXCEPT ![turnIndex] = distSum[N_k]],
             distCount |-> [st.distCount EXCEPT ![turnIndex] = N_k - 1],
             lower |-> [st.lower EXCEPT ![turnIndex] = mu],
             upper |-> [st.upper EXCEPT ![turnIndex] = mu]]
    IN  bounds(Mean(distSum[N_k], N_k - 1))

\* Step 9 with every candidate done at once.
AllDoneAtOnce(st, turnIndex) == TRUE

\* Step 9: no other candidate has a lower bound below the upper bound of
\* turnCandidate.
AllDone(st, turnIndex) ==
    \A j \in DOMAIN st.lower :
        ~(j # turnIndex /\ st.lower[j] < st.upper[turnIndex])

\* One draw of step 1 of GetMedoid_MEDDIT.
MedditFirstSample ==
    /\ InMeddit
    /\ call.st.i <= Len(call.in.clusterAssignment)
    /\ \E j \in DOMAIN call.in.clusterAssignment :
          MedditGoesOn(FirstSample(call.st, call.in.sigma, j,
                          MemberDistance(KmersOfMedoidCall,
                              call.in.clusterAssignment, call.st.i, j,
                              call.in.kmerLength)))

\* One round of steps 2 to 12 of GetMedoid_MEDDIT: a draw of the candidate
\* itself is made again, a sample or the exact sum gives new bounds, and
\* the loop ends when every candidate is done.
MedditRound ==
    /\ InMeddit
    /\ call.st.i > Len(call.in.clusterAssignment)
    /\ LET round(kmers, turnIndex) ==
               IF call.st.distCount[turnIndex]
                      < Len(call.in.clusterAssignment) - 1
               THEN \E j \in DOMAIN call.in.clusterAssignment :
                       LET st == Sampled(call.st, call.in.sigma, turnIndex,
                                     MemberDistance(kmers,
                                         call.in.clusterAssignment, turnIndex,
                                         j, call.in.kmerLength))
                       IN  IF j = turnIndex THEN MedditGoesOn(call.st)
                           ELSE IF AllDone(st, turnIndex)
                           THEN MedditReturns(st,
                                    kmers[call.in.clusterAssignment[turnIndex]])
                           ELSE MedditGoesOn(st)
               ELSE LET st == Exact(call.st, kmers, call.in.clusterAssignment,
                                    call.in.kmerLength, turnIndex)
                    IN  IF AllDone(st, turnIndex)
                        THEN MedditReturns(st,
                                 kmers[call.in.clusterAssignment[turnIndex]])
                        ELSE MedditGoesOn(st)
       IN  round(KmersOfMedoidCall, TurnIndex(call.st.lower))

CallGetMedoid ==
    /\ call.op = "GetMedoid"
    /\ Return(GetMedoid(KmersOfMedoidCall, call.in.clusterAssignment,
                        call.in.kmerLength))

CallGetMedoid_MEDDIT ==
    /\ call.op = "GetMedoid_MEDDIT"
    /\ MedditEnter(KmersOfMedoidCall, call.in.clusterAssignment)

\* The routine KMedoids::Partition gives a cluster of this size to.
MedoidRoutineOfMode(medoidMode, size, minMedditSize) ==
    IF medoidMode = "MedoidNone" THEN "none"
    ELSE IF medoidMode = "MedoidBruteForce" THEN "GetMedoid"
    ELSE "GetMedoid_MEDDIT"

\* The routine KMedoids::Partition gives a cluster of this size to.
MedoidRoutine(medoidMode, size, minMedditSize) ==
    IF medoidMode = "MedoidNone" THEN "none"
    ELSE IF medoidMode = "MedoidBruteForce" \/ size <= minMedditSize
    THEN "GetMedoid"
    ELSE "GetMedoid_MEDDIT"

\* The new prototype of one candidate, lines 185-227 of KMedoids::Partition.
CallUpdateProto ==
    /\ call.op = "UpdateProto"
    /\ LET update(kmers, routine) ==
               IF routine = "none"
               THEN Return(kmers[CHOOSE n \in 1..Len(kmers) :
                              kmers[n].substring
                                  = kmers[call.in.proto].substring])
               ELSE IF routine = "GetMedoid"
               THEN Return(GetMedoid(kmers, call.in.clusterAssignment,
                                     call.in.kmerLength))
               ELSE MedditEnter(kmers, call.in.clusterAssignment)
       IN  update(KmersOfMedoidCall,
                  MedoidRoutine(call.in.medoidMode,
                                Len(call.in.clusterAssignment),
                                call.in.minMedditSize))

\* The iterations of a trial from the prototypes of the call.
CallIterate ==
    /\ call.op = "Iterate"
    /\ LET iterate(kmers) ==
               PartitionIterate(kmers, ProtosAt(kmers, call.in.protos), <<>>,
                                call.in, 0)
       IN  Return(iterate(KmersOfMedoidCall))

InitMedoid == Idle /\ call \in MedoidCalls(TrialSequences)

NextMedoid ==
    \/ CallGetMedoid
    \/ CallGetMedoid_MEDDIT
    \/ CallUpdateProto
    \/ CallIterate
    \/ MedditFirstSample
    \/ MedditRound

SpecMedoid == InitMedoid /\ [][NextMedoid]_vars

\* GetMedoid_MEDDIT called on its own.
InitMeddit == Idle /\ call \in MedditCalls(TrialSequences)

NextMeddit ==
    \/ CallGetMedoid_MEDDIT
    \/ MedditFirstSample
    \/ MedditRound

SpecMeddit == InitMeddit /\ [][NextMeddit]_vars

\* The draws of rand go on, and a sample other than the candidate is drawn
\* in the end: a draw of the candidate itself leaves the state as it is.
FairSpecMeddit == SpecMeddit /\ WF_vars(NextMeddit)

\* ------------------------------------------------------------- the properties
\* The run is over: it returned, threw its Exception, or read through a null
\* pointer.
Ended == pc \in {"done", "threw", "crashed"}

\* The number of copies of k-mer k in the member lists of the clusters.
RECURSIVE CopiesIn(_, _)
CopiesIn(members, k) ==
    IF members = <<>> THEN 0
    ELSE (IF Head(members).kmer = k THEN 1 ELSE 0) + CopiesIn(Tail(members), k)

RECURSIVE Copies(_, _)
Copies(cl, k) ==
    IF cl = <<>> THEN 0
    ELSE CopiesIn(Head(cl).kmers, k) + Copies(Tail(cl), k)

\* The allocated count the while loop of the variant tests.
Allocated == IF args.variant = "global" THEN firstUnallocIndex ELSE NumAllocated

\* C1: when a run of the global variant returns, every k-mer of the input is
\* in the member list of at most one cluster, and at most once in it.
C1_NoDuplicationGlobal ==
    (pc = "done" /\ args.variant = "global")
        => \A k \in 1..N : Copies(clusters, k) <= 1

\* C2: when a run of the banded variant returns, every k-mer of the input is
\* in the member list of at most one cluster, and at most once in it: a k-mer
\* appended in one pass is not appended again in a later pass.
C2_NoDuplicationBanded ==
    (pc = "done" /\ args.variant = "banded")
        => \A k \in 1..N : Copies(clusters, k) <= 1

\* C3: every member of a cluster is within the threshold of the prototype of
\* the cluster, at every moment of a run of either variant.
C3_MembersWithinThreshold ==
    \A c \in DOMAIN clusters : \A m \in DOMAIN clusters[c].kmers :
        /\ clusters[c].prototype.encoding # NULL
        /\ KmerDistanceCache2(kmerIndex[clusters[c].kmers[m].kmer].encoding,
                              clusters[c].prototype.encoding, args.wordLength)
               <= args.threshold

\* C7: a scan appends a k-mer to the cluster of smallest index j >=
\* firstClusterIndex whose prototype is within the threshold of the k-mer.
C7_FirstFit ==
    [][\A c \in DOMAIN clusters :
          (pc = "scan" /\ Len(clusters') = Len(clusters)
              /\ Len(clusters'[c].kmers) > Len(clusters[c].kmers))
          => LET member == clusters'[c].kmers[Len(clusters'[c].kmers)]
                 fit == FirstFit(kmerIndex[member.kmer].encoding, clusters,
                                 firstClusterIndex, args.wordLength, args.threshold)
             IN  fit.kind = "hit" /\ fit.j = c - 1]_vars

\* C9: when the loop ends because a pass left the allocated count unchanged,
\* every k-mer which is in no cluster, and whose distance to itself is within
\* the threshold, is further than the threshold from every prototype.
C9_MaximalAtZeroProgress ==
    (pc = "done" /\ Allocated < N)
        => \A k \in 1..N :
              (Copies(clusters, k) = 0
                  /\ SelfMatchDistance(kmerIndex[k], args.wordLength) <= args.threshold)
              => \A c \in DOMAIN clusters :
                    \/ clusters[c].prototype.encoding = NULL
                    \/ KmerDistanceCache2(kmerIndex[k].encoding,
                                          clusters[c].prototype.encoding,
                                          args.wordLength) > args.threshold

\* C4: two runs of the same variant on the same input, with the same seed
\* and the same number of threads, which both return, leave the same set of
\* clusters with the same sets of members.
C4_Deterministic ==
    (pc = "done" /\ firstRun # NoRun /\ firstRun.variant = args.variant
        /\ firstRun.outcome.pc = "done")
        => Outcome = firstRun.outcome

\* C8: with one thread, a run of the global variant and a run of the banded
\* variant on the same input, which both return, leave the same set of
\* clusters with the same sets of members.
C8_VariantsAgreeSingleThread ==
    (pc = "done" /\ args.numThreads = 1 /\ firstRun # NoRun
        /\ firstRun.variant # args.variant /\ firstRun.outcome.pc = "done")
        => Outcome = firstRun.outcome

\* C5: the allocated count never exceeds N; a pass after which the loop goes
\* on has strictly increased it; the loop ends only when every k-mer is
\* allocated or a pass has left the count unchanged; and every run ends.
C5_Terminates ==
    /\ [](pc \in {"loop", "scan", "done"} => Allocated <= N)
    /\ [][(pc = "scan" /\ pc' = "loop") => (previous < Allocated' /\ Allocated' <= N)]_vars
    /\ [][(pc = "scan" /\ pc' = "done") => Allocated' = previous]_vars
    /\ [][(pc = "loop" /\ pc' = "done") => Allocated >= N]_vars
    /\ <>Ended

\* A run which has ended after a pass that made progress and a pass that
\* made none.
C5_Witness ==
    /\ pc = "done"
    /\ firstClusterIndex > 0
    /\ Allocated = previous
    /\ 0 < Allocated /\ Allocated < N

\* C6, as stated: with no pre-existing cluster and a cluster increment of 0
\* every run ends with the Exception, whatever the size of the k-mer index,
\* and the list of clusters is empty.
C6_ThrowsWhateverSize ==
    (Ended /\ args.protos = <<>> /\ args.clusterIncrement = 0)
        => (pc = "threw" /\ clusters = <<>>)

\* C6, amended: with no pre-existing cluster, a cluster increment of 0 and a
\* k-mer index which is not empty, a run never starts a scan and never
\* returns: it ends with the Exception of the first pass, the list of
\* clusters stays empty and the allocated count is the one of the setup.
C6_ThrowsWhenIndexNotEmpty ==
    (N >= 1 /\ args.protos = <<>> /\ args.clusterIncrement = 0)
        => /\ pc \in {"start", "setup", "loop", "threw"}
           /\ clusters = <<>>
           /\ pc = "threw" => Allocated = previous

\* A run over a k-mer index which is not empty has thrown the Exception.
C6_Witness == pc = "threw" /\ N >= 1

\* C10: when the input has one distinct k-mer, whose distance to itself is
\* within the threshold, there is no pre-existing cluster and the cluster
\* increment is 1, the run returns with exactly one cluster, whose
\* InstanceCount is the number of k-mer occurrences of the input.
C10_TrivialClustering ==
    (Ended /\ N = 1 /\ args.protos = <<>> /\ args.clusterIncrement = 1
        /\ SelfMatchDistance(kmerIndex[1], args.wordLength) <= args.threshold)
        => /\ pc = "done"
           /\ Len(clusters) = 1
           /\ InstanceCount(clusters[1], kmerIndex) = Occurrences(args.db, args.wordLength)

\* ------------------------------------------------ the k-mer index on its own
RECURSIVE TotalInstances(_)
\* The number of instances held by the records of an index.
TotalInstances(index) ==
    IF index = <<>> THEN 0
    ELSE Len(Head(index).instances) + TotalInstances(Tail(index))

\* The start positions of the windows of kmerLength symbols of a sequence,
\* found by sliding the window over it.
WindowStarts(sequence, kmerLength) ==
    {p \in 0..Len(sequence) : p + kmerLength <= Len(sequence)}

RECURSIVE TotalWindows(_, _)
TotalWindows(dataset, kmerLength) ==
    IF dataset = <<>> THEN 0
    ELSE Cardinality(WindowStarts(Head(dataset).sequence, kmerLength))
         + TotalWindows(Tail(dataset), kmerLength)

\* The collection a call of a KmerIndex constructor was given.
CallDataset == Dataset(call.in.db, call.in.wordLength)

\* C11: the index is complete: the instances of its records, summed over the
\* distinct k-mers, are as many as the windows of kmerLength symbols counted
\* by sliding a window over every sequence of the collection.
C11_IndexComplete ==
    (call.op = "KmerIndex" /\ Returned)
        => TotalInstances(call.out) = TotalWindows(CallDataset, call.in.kmerLength)

\* An index over two sequences with a k-mer which occurs more than once.
C11_Witness ==
    /\ call.op = "KmerIndex" /\ Returned
    /\ Len(call.in.db) = 2
    /\ Len(call.out) >= 2
    /\ \E n \in DOMAIN call.out : Len(call.out[n].instances) >= 3

\* The bytes of the window of kmerLength symbols at position p of a sequence.
WindowAt(sequence, p, kmerLength) == [j \in 1..kmerLength |-> sequence[p + j]]

\* The (sequence, position) pairs of the collection where the bytes w stand.
OccurrencesOf(w, dataset, kmerLength) ==
    {o \in [sequence : DOMAIN dataset, kmerPosition : 0..MaxIndexSeqLen] :
        /\ o.kmerPosition \in WindowStarts(dataset[o.sequence].sequence, kmerLength)
        /\ WindowAt(dataset[o.sequence].sequence, o.kmerPosition, kmerLength) = w}

\* C12: the index holds exactly one record for each distinct byte content of
\* a window, and the instances of a record are exactly the (sequence,
\* position) pairs where that content stands, each listed once; two windows
\* are the same k-mer when their bytes are equal, whatever their packed codes.
C12_OneRecordPerContent ==
    (call.op = "KmerIndex" /\ Returned) =>
        LET k == call.in.kmerLength
            index == call.out
        IN  /\ \A n, m \in DOMAIN index :
                    index[n].substring = index[m].substring => n = m
            /\ \A i \in DOMAIN CallDataset :
                    \A p \in WindowStarts(CallDataset[i].sequence, k) :
                        \E n \in DOMAIN index :
                            index[n].substring = WindowAt(CallDataset[i].sequence, p, k)
            /\ \A n \in DOMAIN index :
                    /\ {index[n].instances[x] : x \in DOMAIN index[n].instances}
                           = OccurrencesOf(index[n].substring, CallDataset, k)
                    /\ Len(index[n].instances)
                           = Cardinality(OccurrencesOf(index[n].substring, CallDataset, k))
                    /\ Len(index[n].instances) > 0

\* Two records whose bytes differ though their packed codes are equal, one of
\* them with several instances in both sequences.
C12_Witness ==
    /\ call.op = "KmerIndex" /\ Returned
    /\ \E n, m \in DOMAIN call.out :
            /\ call.out[n].substring # call.out[m].substring
            /\ Encode(call.out[n].substring, call.in.kmerLength, CharsPerWord)
                  = Encode(call.out[m].substring, call.in.kmerLength, CharsPerWord)
            /\ \E x, y \in DOMAIN call.out[n].instances :
                    call.out[n].instances[x].sequence
                        # call.out[n].instances[y].sequence

\* The (sequence, position) pairs recorded in an index.
Recorded(index) ==
    UNION {{index[n].instances[x] : x \in DOMAIN index[n].instances} :
              n \in DOMAIN index}

\* The pairs a Subsequence window allows: the window of kmerLength symbols
\* starts in the Subsequence, ends in it, and ends in its source.
Allowed(substring, dataset, kmerLength) ==
    {o \in [sequence : {substring.source}, kmerPosition : 0..(2 * MaxIndexSeqLen)] :
        /\ substring.start <= o.kmerPosition
        /\ o.kmerPosition + kmerLength <= substring.start + substring.length
        /\ o.kmerPosition + kmerLength <= Len(dataset[substring.source].sequence)}

\* C13: a sequence shorter than kmerLength gives the index no k-mer, and an
\* index built from Subsequences records the positions p with
\* start <= p <= start + length - kmerLength whose window ends within the
\* source, all of them and no other.
C13_WindowsBounded ==
    /\ (call.op \in {"KmerIndex", "KmerIndexSubsequence"} /\ Returned) =>
            \A o \in Recorded(call.out) :
                Len(CallDataset[o.sequence].sequence) >= call.in.kmerLength
    /\ (call.op = "KmerIndexSubsequence" /\ Returned) =>
            Recorded(call.out) =
                UNION {Allowed(call.in.substrings[w], CallDataset, call.in.kmerLength) :
                          w \in DOMAIN call.in.substrings}

\* Two Subsequences: one over a source shorter than kmerLength, one reaching
\* past the end of a source which has a k-mer in it.
C13_Witness ==
    /\ call.op = "KmerIndexSubsequence" /\ Returned
    /\ Len(call.in.substrings) = 2
    /\ Len(CallDataset[call.in.substrings[2].source].sequence) < call.in.kmerLength
    /\ call.in.substrings[1].start + call.in.substrings[1].length
           > Len(CallDataset[call.in.substrings[1].source].sequence)
    /\ Recorded(call.out) # {}

\* ---------------------------------------------------- the alphabet on its own
\* C17: Decode gives back the symbols Encode was given (letter case apart),
\* for charsPerWord 1, 2 and 3 and the same kmerLength on both sides, and
\* every word written by Encode is less than alphabetSize^charsPerWord.
C17_PackingRoundTrip ==
    (call.op = "Encode" /\ Returned) =>
        /\ call.out.decoded = [i \in 1..call.in.kmerLength |-> ToLower(call.in.kmer[i])]
        /\ \A w \in DOMAIN call.out.code :
                call.out.code[w] < Power(AlphabetSize, call.in.charsPerWord)

\* -------------------------------------------- the distance caches on their own
\* C14: the cached distance of two packed k-mers is the sum of the table
\* entries of their whole-word chunks and of their remainder chunk, and it is
\* the raw per-symbol distance of the two decoded k-mers, for every length.
C14_DistanceAdditive ==
    (call.op = "GetDistance" /\ Returned) =>
        LET in == call.in
            chunk(w) == Min(in.charsPerWord, in.kmerLength - w * in.charsPerWord)
            sum[w \in 0..in.kmerLength] ==
                IF w * in.charsPerWord >= in.kmerLength THEN 0
                ELSE PrecomputeDistancesOf(in.matrix, chunk(w))
                         [Code(in.s)[w + 1]][Code(in.t)[w + 1]] + sum[w + 1]
        IN  /\ call.out = sum[0]
            /\ call.out = BlosumDifferenceOf(in.matrix,
                              DecodeKmer(Code(in.s), in.kmerLength, in.charsPerWord),
                              DecodeKmer(Code(in.t), in.kmerLength, in.charsPerWord),
                              in.kmerLength)

\* C15: IsWithin returns true exactly when the full cached distance is not
\* above the threshold, 0 and the largest Distance included, and the result
\* it then reports is that distance.
C15_EarlyExitEquivalent ==
    (call.op = "IsWithin" /\ Returned) =>
        LET full == GetDistance(call.in.matrix, call.in.charsPerWord,
                                Code(call.in.s), Code(call.in.t), call.in.kmerLength)
        IN  /\ call.out.within <=> full <= call.threshold
            /\ call.out.within => call.out.result = full

\* C16: the construction of a distance table fails with an Exception whenever
\* alphabetSize^charsPerWord is more than the largest KmerWord and succeeds
\* otherwise, and after a success every index of the table, from 0 to
\* alphabetSize^charsPerWord - 1, is a KmerWord.
C16_VocabularyFits ==
    (call.op = "PrecomputeDistances" /\ Returned) =>
        LET pow[n \in 0..call.in.charsPerWord] ==
                IF n = 0 THEN 1 ELSE call.in.len * pow[n - 1]
            tuples == pow[call.in.charsPerWord]
        IN  /\ call.out.threw <=> tuples > KmerWordMod - 1
            /\ ~call.out.threw =>
                    /\ call.out.vocabSize = tuples
                    /\ \A index \in {0, tuples - 1} : index \in 0..(KmerWordMod - 1)

\* The construction fails for 256 symbols and two symbols in a word: 65536
\* tuples.
C16_Witness ==
    /\ call.op = "PrecomputeDistances" /\ Returned
    /\ call.out.threw
    /\ call.in.len * call.in.len = KmerWordMod
    /\ call.in.charsPerWord = 2

\* ------------------------------------------------------ the counts of a cluster
\* C18: InstanceCount() and Size() of a cluster return the same value, the
\* sum of the numbers of instances of its members.
C18_InstanceCountIsSize ==
    (call.op = "InstanceCount" /\ Returned) =>
        LET sum[i \in 1..(Len(call.in) + 1)] ==
                IF i > Len(call.in) THEN 0 ELSE call.in[i] + sum[i + 1]
        IN  /\ call.out.instanceCount = call.out.size
            /\ call.out.size = sum[1]

\* --------------------------------------------------- the appends of the scan
\* C19: AddParallel is safe against the other threads of the global scan:
\* every step of the scan leaves the members already in a list in their
\* places and appends at most one (no append is lost or mixed with another),
\* a member appended is a k-mer whose first fit is that cluster, and when the
\* scan ends no k-mer left out of every list has a first fit, so that each
\* list holds exactly the k-mers whose first fit was its cluster.
C19_AddParallelSafe ==
    [][(pc = "scan" /\ args.variant = "global") =>
          /\ \A c \in DOMAIN clusters :
                /\ Len(clusters'[c].kmers) \in
                       {Len(clusters[c].kmers), Len(clusters[c].kmers) + 1}
                /\ SubSeq(clusters'[c].kmers, 1, Len(clusters[c].kmers))
                       = clusters[c].kmers
                /\ Len(clusters'[c].kmers) > Len(clusters[c].kmers) =>
                       LET member == clusters'[c].kmers[Len(clusters'[c].kmers)]
                           fit == FirstFit(kmerIndex[member.kmer].encoding, clusters,
                                           firstClusterIndex, args.wordLength,
                                           args.threshold)
                       IN  fit.kind = "hit" /\ fit.j = c - 1
          /\ pc' \in {"loop", "done"} =>
                \A k \in 1..N :
                    Copies(clusters, k) = 0 =>
                        FirstFit(kmerIndex[k].encoding, clusters, firstClusterIndex,
                                 args.wordLength, args.threshold).kind # "hit"]_vars

\* C20: every member k-mer of every Cluster returned by KMedoids::Partition,
\* in every select mode and every medoid mode, is at a distance no greater
\* than the threshold from the prototype returned for that cluster.
C20_MembersWithinThreshold ==
    (call.op = "Partition" /\ Returned) =>
        \A c \in 1..Len(call.out) :
            \A i \in 1..Len(call.out[c].kmers) :
                KmerDistanceCache2(call.out[c].kmers[i].encoding,
                                   call.out[c].prototype.encoding,
                                   call.in.kmerLength) <= call.in.threshold

\* ------------------------------------------------------------ the partition
\* The best trial of a call of KMedoids::Partition.
BestOfCall ==
    LET dataset == Dataset(call.in.db, call.in.kmerLength)
        seqs == [i \in 1..Len(call.in.seqs) |->
                    [source |-> call.in.seqs[i], start |-> 0,
                     length |-> Len(call.in.db[call.in.seqs[i]])]]
    IN  BestTrial(dataset, seqs,
                  KmerIndexSubsequenceLoop(dataset, seqs, call.in.kmerLength,
                                           1, 0, <<>>),
                  call.in)

\* C21: KMedoids::Partition returns one Cluster for each candidate of the
\* best trial whose member list is not empty, with that member list, and no
\* Cluster for a candidate whose member list is empty, in every medoid mode.
C21_ClusterPerNonEmptyCandidate ==
    (call.op = "Partition" /\ Returned) =>
        LET lists == BestOfCall.kmersPerCluster
            nonEmpty == {k \in DOMAIN lists : lists[k] # <<>>}
        IN  /\ Len(call.out) = Cardinality(nonEmpty)
            /\ \A c \in DOMAIN call.out : call.out[c].kmers # <<>>

\* ------------------------------------------------------- the unassigned range
\* K-mer k can join no cluster: its distance to itself exceeds the threshold.
Excluded(k) == SelfMatchDistance(kmerIndex[k], args.wordLength) > args.threshold

\* Slot i of allKmers lies below the start of the unassigned range: of the
\* whole list in the global variant, of its band in the banded variant.
BelowUnassigned(i) ==
    IF args.variant = "global" THEN i < firstUnallocIndex
    ELSE \E t \in 0..(args.numThreads - 1) :
            BeginIdx(t, args) <= i /\ i < firstUnallocIndex[t]

\* The k-mers split by the filter: the excluded ones, and no other, below
\* the start of the unassigned range.
FilterDone == \A i \in 0..(N - 1) : Excluded(allKmers[i + 1]) <=> BelowUnassigned(i)

\* The k-mer a cluster was seeded from, for the clusters which were not
\* read from the prototype file.
SeedOf(c) == CHOOSE k \in 1..N : kmerIndex[k].substring = clusters[c].prototype.substring

\* C22: after the setup of either variant every k-mer whose distance to
\* itself exceeds the threshold lies below the start of the unassigned range
\* and every other k-mer lies inside it; and a k-mer whose distance to itself
\* exceeds the threshold is never the seed of a cluster and never a member
\* of one.
C22_SetupFilter ==
    [][/\ (pc \in {"start", "setup"} /\ pc' = "loop") => FilterDone'
       /\ \A c \in DOMAIN clusters' :
             /\ c > Len(args.protos) => ~Excluded(SeedOf(c))'
             /\ \A m \in DOMAIN clusters'[c].kmers :
                   ~Excluded(clusters'[c].kmers[m].kmer)]_vars

\* C23: when a pass of the global variant ends, whatever the interleaving of
\* its scan, the k-mers in the slots below firstUnallocIndex are exactly the
\* excluded k-mers and the members of the clusters, and every k-mer in a slot
\* from firstUnallocIndex on is within the threshold of no prototype from
\* firstClusterIndex on.
C23_GlobalPassPartition ==
    [][(args.variant = "global" /\ pc = "scan" /\ pc' \in {"loop", "done"}) =>
          \A i \in 0..(N - 1) :
              LET k == allKmers'[i + 1]
              IN  /\ (i < firstUnallocIndex')
                        <=> (Excluded(k) \/ Copies(clusters', k) > 0)
                  /\ i >= firstUnallocIndex' =>
                        FirstFit(kmerIndex[k].encoding, clusters',
                                 firstClusterIndex, args.wordLength,
                                 args.threshold).kind = "miss"]_vars

\* C24: in the banded variant, after the setup and after every pass, the
\* allocated count computed by GetUnallocated is the number of excluded
\* k-mers plus the number of distinct k-mers which are members of clusters,
\* and the k-mers below firstUnallocIndex[t] in the band of each thread t
\* are exactly those.
C24_BandedAllocatedCount ==
    (args.variant = "banded" /\ pc \in {"loop", "done"}) =>
        /\ NumAllocated
              = Cardinality({k \in 1..N : Excluded(k) \/ Copies(clusters, k) > 0})
        /\ \A i \in 0..(N - 1) :
              BelowUnassigned(i)
                  <=> (Excluded(allKmers[i + 1])
                          \/ Copies(clusters, allKmers[i + 1]) > 0)

\* --------------------------------------------------------------- the passes
\* The call of DoIncrementalClusteringParallel goes from its seed phase to
\* its scan.
PassStarts == pc = "loop" /\ pc' = "scan"

\* The number of clusters the pass which starts is to seed: none in the
\* first pass when the prototype file supplied clusters, otherwise the
\* cluster increment or, if fewer, the number of unassigned k-mers.
SeedsDue ==
    IF firstClusterIndex = 0 /\ Len(args.protos) > 0 THEN 0
    ELSE Min(args.clusterIncrement, N - Allocated)

\* The clusters appended by the seed phase are singletons made of the
\* k-mers at the front of the unassigned range of the global variant, one
\* for each k-mer, in their order.
SeededFromFront ==
    \A j \in 1..(Len(clusters') - Len(clusters)) :
        /\ clusters'[Len(clusters) + j].prototype.substring
              = kmerIndex[allKmers[firstUnallocIndex + j]].substring
        /\ clusters'[Len(clusters) + j].kmers = <<>>

C26_SetAfterEachPass ==
    [][(pc = "scan" /\ pc' \in {"loop", "done"}) =>
          firstClusterIndex' = Len(clusters')]_vars

\* C26, amended: when a pass which made progress ends, firstClusterIndex is
\* the size of the cluster list, so every pass after the first starts with
\* firstClusterIndex at the number of clusters which existed before its
\* seed phase; and while a pass scans, the clusters with index below
\* firstClusterIndex, their member lists included, stay as they are.
C26_FirstClusterIndex ==
    [][/\ (pc = "scan" /\ pc' = "loop") => firstClusterIndex' = Len(clusters')
       /\ PassStarts =>
             /\ firstClusterIndex' = firstClusterIndex
             /\ firstClusterIndex \in {0, Len(clusters)}
       /\ pc = "scan" =>
             /\ firstClusterIndex' \in {firstClusterIndex, Len(clusters')}
             /\ \A c \in 1..firstClusterIndex : clusters'[c] = clusters[c]]_vars

\* A pass after the first is scanning: a cluster seeded in it has a member,
\* and so has a cluster of an earlier pass.
C26_Witness ==
    /\ pc = "scan"
    /\ firstClusterIndex > 0
    /\ \E c \in 1..firstClusterIndex : clusters[c].kmers # <<>>
    /\ \E c \in (firstClusterIndex + 1)..Len(clusters) : clusters[c].kmers # <<>>

\* The prototypes of the cluster list, in its order.
Prototypes(cl) == [c \in DOMAIN cl |-> cl[c].prototype]

\* An iteration (global) or thread (banded) of the scan has finished.
ScanFinished(t) == scan[t].pc \in {"done", "joined"}

\* C27: the cluster list changes, and createPrototype is called, only in
\* the seed phase, which appends to the list; while the threads of a scan
\* run no cluster is added, removed or reordered; and a pass ends, so that
\* the seed phase of the next can start, only when every thread of its scan
\* has finished.
C27_SeedPhaseSerial ==
    [][/\ Prototypes(clusters') # Prototypes(clusters) =>
             /\ PassStarts
             /\ scan = <<>>
             /\ Len(clusters') > Len(clusters)
             /\ \A c \in DOMAIN clusters : clusters'[c] = clusters[c]
       /\ pc = "scan" => Prototypes(clusters') = Prototypes(clusters)
       /\ (pc = "scan" /\ pc' \in {"loop", "done"}) =>
             \A t \in DOMAIN scan : ScanFinished(t)
       /\ PassStarts => scan = <<>>]_vars

\* A pass after the first is scanning clusters seeded by two seed phases:
\* one of its threads has finished and another has not.
C27_Witness ==
    /\ pc = "scan"
    /\ firstClusterIndex > 0
    /\ Len(clusters) > firstClusterIndex
    /\ \E t, u \in DOMAIN scan : ScanFinished(t) /\ ~ScanFinished(u)

RECURSIVE AppendCount(_)
\* The number of members the clusters hold: the appends made so far.
AppendCount(cl) ==
    IF cl = <<>> THEN 0 ELSE Len(Head(cl).kmers) + AppendCount(Tail(cl))

\* The iterations of the scan which have appended their k-mer and have not
\* yet gone through the critical section.
AwaitingCritical == {i \in DOMAIN scan : scan[i].pc = "added"}

\* C28: in the global variant, while a pass scans, firstUnallocIndex is
\* changed only by the critical section of an iteration which has appended
\* its k-mer, by one; with the appends still waiting for their critical
\* section it grows exactly as the number of appends does, and no iteration
\* is waiting when the pass begins or ends; it never exceeds N.
C28_CriticalCounter ==
    [][args.variant = "global" =>
          /\ firstUnallocIndex' <= N
          /\ (pc = "scan" /\ firstUnallocIndex' # firstUnallocIndex) =>
                /\ firstUnallocIndex' = firstUnallocIndex + 1
                /\ \E i \in AwaitingCritical : scan' = [scan EXCEPT ![i] = Finished]
          /\ pc = "scan" =>
                (firstUnallocIndex' + Cardinality(AwaitingCritical'))
                    - (firstUnallocIndex + Cardinality(AwaitingCritical))
                = AppendCount(clusters') - AppendCount(clusters)
          /\ (PassStarts \/ (pc = "scan" /\ pc' \in {"loop", "done"})) =>
                AwaitingCritical = {} /\ AwaitingCritical' = {}]_vars

\* Two threads of a pass of the global variant have each appended a k-mer
\* and wait for the critical section.
C28_Witness ==
    /\ args.variant = "global" /\ pc = "scan"
    /\ Cardinality(AwaitingCritical) = 2

\* The slots of the band of thread t: [t*N/numThreads, (t+1)*N/numThreads).
BandSlots(t) ==
    {i \in 0..(N - 1) : /\ (t * N) \div args.numThreads <= i
                        /\ i < ((t + 1) * N) \div args.numThreads}

\* The k-mers held in the slots of the band of thread t.
BandKmers(t) == {allKmers[i + 1] : i \in BandSlots(t)}

\* The threads of the banded variant.
Threads == 0..(args.numThreads - 1)

InsideRand == {t \in DOMAIN scan : scan[t].pc = "draw"}

\* C30: rand() is called by one thread at a time, and each call continues
\* the stream from the state the call before it left.
C30_RandSerial ==
    /\ Cardinality(InsideRand) <= 1
    /\ \A t \in InsideRand : scan[t].seen = rand

\* ----------------------------------------------------------- the last claims
\* A run of the global variant which starts with no cluster, a cluster
\* increment of at least 1 and no k-mer whose self-distance exceeds the
\* threshold.
EveryKmerEligible ==
    /\ args.variant = "global"
    /\ args.protos = <<>>
    /\ args.clusterIncrement >= 1
    /\ \A k \in 1..N : ~Excluded(k)

\* The run has ended with every slot allocated and every k-mer of the index
\* a member of some cluster.
FullyClustered ==
    /\ pc = "done"
    /\ args.variant = "global"
    /\ firstUnallocIndex = N
    /\ \A k \in 1..N : Copies(clusters, k) > 0

\* C31: a run of the global variant with no pre-existing cluster, a cluster
\* increment of at least 1 and every k-mer's self-distance within the
\* threshold eventually ends with firstUnallocIndex = N and every k-mer of
\* the index a member of some cluster, however the threads of the scans
\* interleave.
C31_GlobalLiveness == EveryKmerEligible => <>FullyClustered

\* C32: the prototype k-mer of every cluster, whichever constructor built
\* its prototype, has exactly one instance, the prototype sequence at offset
\* 0, and a packed encoding which is not null.
C32_PrototypeUsable ==
    \A c \in DOMAIN clusters :
        /\ Len(clusters[c].prototype.instances) = 1
        /\ \A n \in DOMAIN clusters[c].prototype.instances :
              clusters[c].prototype.instances[n].kmerPosition = 0
        /\ clusters[c].prototype.encoding # NULL

\* C33: the distance stored in every member of a cluster is the distance
\* between that k-mer and the prototype of the cluster which holds it, and
\* is no more than the threshold.
C33_StoredDistance ==
    \A c \in DOMAIN clusters : \A m \in DOMAIN clusters[c].kmers :
        LET member == clusters[c].kmers[m]
        IN  /\ member.distanceFromPrototype
                  = KmerDistanceCache2(kmerIndex[member.kmer].encoding,
                                       clusters[c].prototype.encoding, args.wordLength)
            /\ member.distanceFromPrototype <= args.threshold

\* The collection, the domain instances and the k-mers of the call of
\* Partition.
DatasetOfCall == Dataset(call.in.db, call.in.kmerLength)

SeqsOfCall ==
    [i \in 1..Len(call.in.seqs) |->
        [source |-> call.in.seqs[i], start |-> 0,
         length |-> Len(call.in.db[call.in.seqs[i]])]]

KmersOfCall ==
    KmerIndexSubsequenceLoop(DatasetOfCall, SeqsOfCall, call.in.kmerLength, 1, 0, <<>>)

\* The trials the call of Partition is to run, trial t seeded by the t-th
\* of seqs: min(number of sequences, trials) of them.
TrialsOfCall ==
    [t \in 1..Min(Len(call.in.seqs), call.in.trials) |->
        Trial(DatasetOfCall, SeqsOfCall, KmersOfCall, call.in, t)]

\* The earliest of the trials which assigned the largest number of k-mer
\* instances in its final iteration.
EarliestBest(trial) ==
    CHOOSE t \in DOMAIN trial :
        /\ \A u \in DOMAIN trial : trial[u].numAssignedKmers <= trial[t].numAssignedKmers
        /\ \A u \in 1..(t - 1) : trial[u].numAssignedKmers < trial[t].numAssignedKmers

\* The clusters of a trial.
ClustersOfTrial(this) ==
    CreateClusters(DatasetOfCall, KmersOfCall, this.protos, this.kmersPerCluster)

\* C34: Partition runs min(number of sequences, trials) trials, trial t
\* seeded by the t-th sequence, and returns the partition of the earliest of
\* the trials whose final iteration assigned the largest number of k-mer
\* instances: the clusters of that trial, which are no cluster at all when
\* that trial, and so every trial, assigned no k-mer.
C34_BestTrialReturned ==
    (call.op = "Partition" /\ Returned) =>
        LET pick(trial, t) ==
                IF trial[t].numAssignedKmers > 0
                THEN call.out = ClustersOfTrial(trial[t])
                ELSE /\ call.out = <<>>
                     /\ \A k \in DOMAIN trial[t].kmersPerCluster :
                           trial[t].kmersPerCluster[k] = <<>>
            best(trial) == pick(trial, EarliestBest(trial))
        IN  best(TrialsOfCall)

\* A call with two trials of which the second assigned more k-mer instances
\* than the first, which assigned some.
C34_Witness ==
    /\ call.op = "Partition" /\ Returned
    /\ LET second(trial) ==
               /\ Len(trial) = 2
               /\ 0 < trial[1].numAssignedKmers
               /\ trial[1].numAssignedKmers < trial[2].numAssignedKmers
       IN  second(TrialsOfCall)

\* The candidates which hold k-mer n in their lists.
Holders(lists, n) ==
    {k \in DOMAIN lists : \E i \in DOMAIN lists[k] : lists[k][i] = n}

\* C35: the assignment loop puts every k-mer in the list of at most one
\* candidate, and once in it: with SelectNearest the live candidate at the
\* smallest distance, the one of lowest index among equals, if and only if
\* that distance is within the threshold; with SelectGreedy the live
\* candidate of lowest index whose distance is within the threshold; no
\* candidate otherwise.
C35_Assignment ==
    (call.op = "AssignKmers" /\ Returned) =>
        LET check(kmers) ==
                \A n \in DOMAIN kmers :
                    LET live == {k \in DOMAIN call.in.protos : call.in.protos[k] # 0}
                        dist(k) == KmerDistanceCache2(kmers[n].encoding,
                                       kmers[call.in.protos[k]].encoding,
                                       call.in.kmerLength)
                        nearest == {k \in live : \A j \in live : dist(k) <= dist(j)}
                        within == {k \in live : dist(k) <= call.in.threshold}
                        due == IF call.in.selectMode = "SelectNearest"
                               THEN nearest \cap within ELSE within
                        lowest == {k \in due : \A j \in due : k <= j}
                    IN  /\ Holders(call.out, n) = lowest
                        /\ \A k \in lowest :
                              Cardinality({i \in DOMAIN call.out[k] :
                                              call.out[k][i] = n}) = 1
        IN  /\ Len(call.out) = Len(call.in.protos)
            /\ check(KmerIndex(call.in.db, call.in.kmerLength))

\* An assignment with SelectNearest where the first of three candidates has
\* a null prototype and a k-mer is equally near to the two live candidates,
\* within the threshold, and goes to the first of them.
C35_Witness ==
    /\ call.op = "AssignKmers" /\ Returned
    /\ call.in.selectMode = "SelectNearest"
    /\ Len(call.in.protos) = 3
    /\ call.in.protos[1] = 0 /\ call.in.protos[2] # 0 /\ call.in.protos[3] # 0
    /\ LET found(kmers) ==
               \E n \in DOMAIN kmers :
                   /\ Holders(call.out, n) = {2}
                   /\ KmerDistanceCache2(kmers[n].encoding,
                          kmers[call.in.protos[2]].encoding, call.in.kmerLength)
                      = KmerDistanceCache2(kmers[n].encoding,
                            kmers[call.in.protos[3]].encoding, call.in.kmerLength)
       IN  found(KmerIndex(call.in.db, call.in.kmerLength))

\* The sum of the distances of member i of the cluster to all the other
\* members.
TotalToOthers(kmers, clusterAssignment, i, kmerLength) ==
    LET total[j \in 0..Len(clusterAssignment)] ==
            IF j = 0 THEN 0
            ELSE IF j = i THEN total[j - 1]
            ELSE total[j - 1]
                 + MemberDistance(kmers, clusterAssignment, i, j, kmerLength)
    IN  total[Len(clusterAssignment)]

\* The members whose total distance to all the other members is the
\* smallest, as positions in the cluster.
ExactMedoids(kmers, clusterAssignment, kmerLength) ==
    LET least(total) ==
            {i \in DOMAIN total : \A j \in DOMAIN total : total[i] <= total[j]}
    IN  least([i \in DOMAIN clusterAssignment |->
                  TotalToOthers(kmers, clusterAssignment, i, kmerLength)])

\* C37: for a cluster which is not empty GetMedoid returns the member whose
\* total distance to all the other members is the smallest, the earliest
\* such member of the assignment when several have it.
C37_ExactMedoid ==
    (call.op = "GetMedoid" /\ Returned /\ call.in.clusterAssignment # <<>>) =>
        LET earliest(medoids) ==
                CHOOSE i \in medoids : \A j \in medoids : i <= j
            exact(kmers) ==
                call.out
                    = kmers[call.in.clusterAssignment[
                          earliest(ExactMedoids(kmers,
                                       call.in.clusterAssignment,
                                       call.in.kmerLength))]]
        IN  exact(KmersOfMedoidCall)

C38_MedoidEdgeCases ==
    /\ (call.op \in {"GetMedoid", "GetMedoid_MEDDIT"} /\ Returned) =>
          LET edge(kmers) ==
                  /\ Len(call.in.clusterAssignment) = 0 =>
                        call.out = Kmer(<<>>)
                  /\ Len(call.in.clusterAssignment) = 1 =>
                        call.out = kmers[call.in.clusterAssignment[1]]
          IN  edge(KmersOfMedoidCall)
    /\ (call.op = "Iterate" /\ Returned) =>
          \A k \in DOMAIN call.in.protos :
              call.in.protos[k] = 0 =>
                  /\ call.out.kmersPerCluster[k] = <<>>
                  /\ call.out.protos[k] = Kmer(<<>>)

\* GetMedoid_MEDDIT has returned a null prototype for an empty cluster.
C38_Witness ==
    /\ call.op = "GetMedoid_MEDDIT" /\ Returned
    /\ call.in.clusterAssignment = <<>>
    /\ call.out.encoding = NULL

\* A round of GetMedoid_MEDDIT: the candidate with the smallest lower bound
\* has one sample more, or the exact mean for both of its bounds, and every
\* other candidate is as it was.
MedditRoundShape ==
    (InMeddit /\ call.st.i > Len(call.in.clusterAssignment)) =>
        LET N_k == Len(call.in.clusterAssignment)
            t == TurnIndex(call.st.lower)
            shape(kmers, was, now) ==
                /\ \A j \in 1..N_k :
                      j # t => /\ now.distSum[j] = was.distSum[j]
                               /\ now.distCount[j] = was.distCount[j]
                               /\ now.lower[j] = was.lower[j]
                               /\ now.upper[j] = was.upper[j]
                /\ \/ /\ was.distCount[t] < N_k - 1
                      /\ now.distCount[t] = was.distCount[t] + 1
                      /\ \E j \in 1..N_k \ {t} :
                            now.distSum[t]
                                = was.distSum[t]
                                  + MemberDistance(kmers,
                                        call.in.clusterAssignment, t, j,
                                        call.in.kmerLength)
                   \/ /\ was.distCount[t] >= N_k - 1
                      /\ now.distCount[t] = N_k - 1
                      /\ now.distSum[t]
                             = TotalToOthers(kmers, call.in.clusterAssignment,
                                             t, call.in.kmerLength)
                      /\ now.lower[t] = now.upper[t]
                      /\ now.lower[t] * (N_k - 1) = MeanScale * now.distSum[t]
        IN  shape(KmersOfMedoidCall, call.st, call'.st)

\* The prototype GetMedoid_MEDDIT returned is a member of the cluster whose
\* upper bound no lower bound of another member is below.
MedditBest ==
    (Returned /\ "st" \in DOMAIN call) =>
        LET best(kmers) ==
                \E t \in DOMAIN call.in.clusterAssignment :
                    /\ call.out = kmers[call.in.clusterAssignment[t]]
                    /\ \A j \in DOMAIN call.in.clusterAssignment :
                          j # t => call.st.upper[t] <= call.st.lower[j]
        IN  best(KmersOfMedoidCall)

\* C39: for a cluster of two or more, whatever the samples, as long as a
\* sample other than the candidate is drawn in the end, GetMedoid_MEDDIT
\* returns after finitely many rounds; every round gives the candidate with
\* the smallest lower bound one more sample or the exact mean; and the
\* prototype returned is a member of the cluster whose upper bound is at
\* most the lower bound of every other member.
C39_MedditTerminates ==
    /\ (call.op = "GetMedoid_MEDDIT"
        /\ Len(call.in.clusterAssignment) >= 2) => <>Returned
    /\ [][MedditRoundShape]_vars
    /\ [](MedditBest)

\* GetMedoid_MEDDIT has returned a member of a cluster of three other than
\* its first, after it drew a second sample for the member and then took
\* its exact mean, while another member still has its first sample only.
C39_Witness ==
    /\ call.op = "GetMedoid_MEDDIT" /\ Returned
    /\ call.in.sigma = 1
    /\ Len(call.in.clusterAssignment) = 3
    /\ \E i \in 1..3 : call.st.distCount[i] = 1
    /\ \E t \in 2..3 :
          /\ call.out = KmersOfMedoidCall[call.in.clusterAssignment[t]]
          /\ call.st.distCount[t] = 2
          /\ call.st.lower[t] = call.st.upper[t]

====
